---- MODULE Spec2Model ----
(***************************************************************************)
(* StateFlow: the event-driven energy optimization pipeline.               *)
(*                                                                         *)
(*   api.sensor.ingest         (Ingestion)     IngestStart .. IngestEmit   *)
(*   event.sensor.process      (Aggregator)    AggGetUsage .. AggSetGuard  *)
(*   api.user.preferences      (Thresholds)    SetPreferences              *)
(*   ai/gemini-analyzer        (Decision)      analyzeWithGemini           *)
(*   workflow.energy.optimize  (Orchestrator)  OrchStart .. OrchEmit       *)
(*   job.energy.execute        (Executor)      ExecStart .. ExecSetFailed  *)
(*                                                                         *)
(* Every handler is an async function.  Each `await` of a store read, a    *)
(* store write or an emit is one atomic step of the model; the synchronous *)
(* code that follows an await, up to the next await, belongs to the step   *)
(* of that await.  Handlers of different events interleave at the awaits.  *)
(*                                                                         *)
(* The specifications share the variables:                                 *)
(*   SpecAgg          readings handled concurrently by the Aggregator      *)
(*   SpecAggSeq       readings handled one after another                   *)
(*   SpecAggRedeliver readings handled one after another, every reading    *)
(*                    event deliverable more than once                     *)
(*   SpecAggFault     SpecAgg with a store and a bus that may reject       *)
(*   SpecIngest       requests to POST /api/sensor/ingest                  *)
(*   SpecLife         Orchestrator and Executor runs over the emitted      *)
(*                    events, every event deliverable more than once;      *)
(*                    store operations of the Executor's try block and     *)
(*                    writes to the status stream may raise                *)
(*   SpecLifeOnce     SpecLife with every event delivered exactly once     *)
(*   SpecLifeFair     SpecLife under fair delivery and progress            *)
(*   SpecExec         the Executor on its own; the actuation may reject    *)
(*   SpecDecide       the Decision Engine under one Orchestrator run       *)
(*   SpecCredential   Orchestrator runs while the credential changes       *)
(*   SpecAiSilent     Orchestrator runs with a model API that may not reply*)
(* In SpecAgg, SpecAggSeq and SpecAggRedeliver the store and the bus always*)
(* respond.                                                                *)
(***************************************************************************)
EXTENDS Integers, Sequences, FiniteSets, TLC

(***************************************************************************)
(* Bounds of the model.                                                    *)
(***************************************************************************)
\* number of distinct calendar dates readings may carry
NumDates == 2
\* number of sensor.reading.created events delivered to the Aggregator
MaxReadings == 3
\* number of Aggregator handlers that may be in flight at the same time
MaxActive == 2
\* largest value of the millisecond clock (Date.now())
MaxClock == 1
\* number of POSTs to /api/user/preferences
MaxPrefWrites == 1

Dates == 1..NumDates
Readings == 1..MaxReadings
\* reading values (kWh); 50+50 meets the default dailyMax exactly
Values == {50, 60}
\* thresholds.dailyMax of a POST body to /api/user/preferences; 0 stands
\* for a body without thresholds.dailyMax
PrefBodies == {0, 50}

(***************************************************************************)
(* Program constants.                                                      *)
(***************************************************************************)
\* DEFAULT_THRESHOLDS.dailyMax
DEFAULT_DAILY_MAX == 100
\* the delay of executeOptimization, setTimeout(resolve, 100), in clock ticks
TIMER_TICKS == 1

VARIABLES
    sensors,               \* store group 'sensors', keys <sensorId>
    usageRaw,              \* store group 'usage', keys raw/<timestamp>
    ingest,                \* the handler of each POST /api/sensor/ingest
    sensorReadingCreated,  \* events on topic sensor.reading.created, in order
    usageDaily,            \* store group 'usage', keys daily/<date>
    optimizationTriggered, \* store group 'usage', keys daily/<date>/optimizationTriggered
    userPreferences,       \* store group 'user', key preferences: <<>> or <<prefs>>
    optimizationRequired,  \* events emitted on topic optimization.required, in order
    agg,                   \* the Aggregator handler of each reading event
    clock,                 \* Date.now()
    prefWrites,            \* number of preference POSTs handled
    optimizations,         \* store group 'optimizations', keys <optimizationId>
    executionRequested,    \* events emitted on topic execution.requested, in order
    energyStatus,          \* stream energyStatus, keys <<date, optimizationId>>
    orch,                  \* the Orchestrator handler of each delivery of optimization.required
    exec,                  \* the Executor handler of each delivery of execution.requested
    apiKey,                \* process.env.GEMINI_API_KEY is set
    genAI,                 \* the lazily created Gemini client exists
    storeFaults,           \* number of store operations that raised
    streamFaults           \* number of stream writes that raised

ingestVars == <<sensors, usageRaw, ingest>>

aggVars == <<sensorReadingCreated, usageDaily, optimizationTriggered,
             userPreferences, agg, prefWrites>>

lifeVars == <<optimizations, executionRequested, energyStatus, orch, exec,
              apiKey, genAI, storeFaults, streamFaults>>

vars == <<sensors, usageRaw, ingest, sensorReadingCreated, usageDaily, optimizationTriggered, userPreferences,
          optimizationRequired, agg, clock, prefWrites,
          optimizations, executionRequested, energyStatus, orch, exec,
          apiKey, genAI, storeFaults, streamFaults>>

(***************************************************************************)
(* The key/value store: a group is a function from the keys that were set. *)
(* get of a key never set answers null.                                    *)
(***************************************************************************)
StateHas(group, key) == key \in DOMAIN group

\* variant with a slip: the value lands under every key of the group
StateSetEveryKey(group, key, value) ==
    [k \in (DOMAIN group) \cup {key} |-> value]

StateSet(group, key, value) ==
    [k \in (DOMAIN group) \cup {key} |-> IF k = key THEN value ELSE group[k]]

(***************************************************************************)
(* Aggregates of a readings array.                                         *)
(***************************************************************************)
RECURSIVE SumSeq(_)
SumSeq(s) == IF s = <<>> THEN 0 ELSE s[1] + SumSeq(Tail(s))

Max(a, b) == IF a >= b THEN a ELSE b

\* the record created for a date without one
NewDailyUsage(date) ==
    [date |-> date, totalConsumption |-> 0, peakUsage |-> 0,
     avgUsage |-> <<0, 1>>, readingCount |-> 0, readings |-> <<>>]

\* variant with a slip: the value replaces the readings instead of joining them
UpdateAggregatesReplacing(dailyUsage, value) ==
    [date |-> dailyUsage.date,
     totalConsumption |-> value,
     peakUsage |-> Max(dailyUsage.peakUsage, value),
     avgUsage |-> <<value, 1>>,
     readingCount |-> 1,
     readings |-> <<value>>]

\* variant with a slip: the peak is the last value, not the largest
UpdateAggregatesLastPeak(dailyUsage, value) ==
    LET readings == Append(dailyUsage.readings, value)
        total == SumSeq(readings)
    IN [date |-> dailyUsage.date,
        totalConsumption |-> total,
        peakUsage |-> value,
        avgUsage |-> <<total, Len(readings)>>,
        readingCount |-> Len(readings),
        readings |-> readings]

\* STEP 2 of the handler: push the value and recompute the aggregates.
\* avgUsage is the exact quotient, kept as <<numerator, denominator>>.
UpdateAggregates(dailyUsage, value) ==
    LET readings == Append(dailyUsage.readings, value)
        total == SumSeq(readings)
    IN [date |-> dailyUsage.date,
        totalConsumption |-> total,
        peakUsage |-> Max(dailyUsage.peakUsage, value),
        avgUsage |-> <<total, Len(readings)>>,
        readingCount |-> Len(readings),
        readings |-> readings]

\* variant with a slip: the stored preferences are not consulted
ThresholdDailyMaxDefaultOnly(prefs) == DEFAULT_DAILY_MAX

\* userPrefs?.thresholds ?? DEFAULT_THRESHOLDS, its dailyMax
ThresholdDailyMax(prefs) ==
    IF prefs = <<>> THEN DEFAULT_DAILY_MAX ELSE prefs[1].dailyMax

\* `opt-${date}-${Date.now()}`
OptimizationId(date, now) == <<date, now>>

(***************************************************************************)
(* Aggregator handler (event.sensor.process).                              *)
(***************************************************************************)
\* the sensors: the reading events come from them in turn
Sensors == <<"sensor-1", "sensor-2">>

SensorOf(p) == Sensors[((p - 1) % Len(Sensors)) + 1]

\* the input of the handler (lines 39-54) as far as the handler reads it
ReadingEvent(sensorId, value, date) ==
    [sensorId |-> sensorId, value |-> value, date |-> date]

\* failedAt names the await at which the run raised, "none" while it has not
AggIdle == [pc |-> "idle", date |-> 0, value |-> 0,
            dailyUsage |-> NewDailyUsage(0), dailyMax |-> 0,
            optimizationId |-> <<0, 0>>, triggeredAt |-> 0, failedAt |-> "none"]

AggDone == [AggIdle EXCEPT !.pc = "done"]

\* variant with a slip: the handler starts over after an operation rejected
AggThrewRetrying == [AggIdle EXCEPT !.pc = "idle"]

\* the handler has raised: its locals are gone
AggThrew == [AggIdle EXCEPT !.pc = "threw"]

AggActive == {p \in Readings : agg[p].pc \notin {"idle", "done", "threw"}}

\* the handler returns: its locals are gone
AggReturn(p) == agg' = [agg EXCEPT ![p] = AggDone]

\* delivery of a reading: STEP 1 reads usage/daily/<date>, STEP 2 updates
\* the local copy.  Handlers are started in the order of their index.
AggGetUsage(p, date, value, limit) ==
    /\ agg[p].pc = "idle"
    /\ \A q \in Readings : q < p => agg[q].pc # "idle"
    /\ Cardinality(AggActive) < limit
    /\ LET stored == IF StateHas(usageDaily, date) THEN usageDaily[date]
                     ELSE NewDailyUsage(date)
       IN agg' = [agg EXCEPT ![p] = [@ EXCEPT !.pc = "setUsage",
                                               !.date = date,
                                               !.value = value,
                                               !.dailyUsage = UpdateAggregates(stored, value)]]
    /\ sensorReadingCreated' = Append(sensorReadingCreated,
                                      ReadingEvent(SensorOf(p), value, date))
    /\ UNCHANGED <<ingestVars, usageDaily, optimizationTriggered, userPreferences,
                   optimizationRequired, clock, prefWrites, lifeVars>>

\* the k-th reading event on the topic is delivered once more, to a new run
\* of the handler (at-least-once delivery): STEP 1 and STEP 2 as above
AggRedeliver(p, k, limit) ==
    /\ agg[p].pc = "idle"
    /\ \A q \in Readings : q < p => agg[q].pc # "idle"
    /\ Cardinality(AggActive) < limit
    /\ k \in DOMAIN sensorReadingCreated
    /\ LET date == sensorReadingCreated[k].date
           value == sensorReadingCreated[k].value
           stored == IF StateHas(usageDaily, date) THEN usageDaily[date]
                     ELSE NewDailyUsage(date)
       IN agg' = [agg EXCEPT ![p] = [@ EXCEPT !.pc = "setUsage",
                                               !.date = date,
                                               !.value = value,
                                               !.dailyUsage = UpdateAggregates(stored, value)]]
    /\ UNCHANGED <<ingestVars, sensorReadingCreated, usageDaily, optimizationTriggered,
                   userPreferences, optimizationRequired, clock, prefWrites, lifeVars>>

\* await state.set('usage', `daily/${date}`, dailyUsage)
AggSetUsage(p) ==
    /\ agg[p].pc = "setUsage"
    /\ usageDaily' = StateSet(usageDaily, agg[p].date, agg[p].dailyUsage)
    /\ agg' = [agg EXCEPT ![p].pc = "getPrefs"]
    /\ UNCHANGED <<ingestVars, sensorReadingCreated, optimizationTriggered, userPreferences,
                   optimizationRequired, clock, prefWrites, lifeVars>>

\* variant with a slip: every total counts as exceeding dailyMax
ThresholdExceededAlways(totalConsumption, dailyMax) == TRUE

\* variant with a slip: a total that meets dailyMax counts as exceeding it
ThresholdExceededOrMet(totalConsumption, dailyMax) == totalConsumption >= dailyMax

\* STEP 3 reads user/preferences, STEP 4 compares with a strict >
ThresholdExceeded(totalConsumption, dailyMax) == totalConsumption > dailyMax

AggGetPrefs(p) ==
    /\ agg[p].pc = "getPrefs"
    /\ LET dailyMax == ThresholdDailyMax(userPreferences)
       IN IF ThresholdExceeded(agg[p].dailyUsage.totalConsumption, dailyMax)
          THEN agg' = [agg EXCEPT ![p] = [@ EXCEPT !.pc = "getGuard",
                                                   !.dailyMax = dailyMax]]
          ELSE AggReturn(p)
    /\ UNCHANGED <<ingestVars, sensorReadingCreated, usageDaily, optimizationTriggered, userPreferences,
                   optimizationRequired, clock, prefWrites, lifeVars>>

\* the idempotency check: reads daily/<date>/optimizationTriggered; when it
\* is not set the identifier and triggeredAt are taken from the clock
\* variants with a slip, used to test the claims about the guard: the flag
\* is never honoured; a flag never written counts as set; the flag of any
\* date counts
AlreadyTriggeredIgnored(guards, date) == FALSE

AlreadyTriggeredUnlessFalse(guards, date) == ~ StateHas(guards, date) \/ guards[date]

AlreadyTriggeredAnyDate(guards, date) == \E d \in DOMAIN guards : guards[d]

AlreadyTriggered(guards, date) == StateHas(guards, date) /\ guards[date]

AggGetGuard(p) ==
    /\ agg[p].pc = "getGuard"
    /\ IF AlreadyTriggered(optimizationTriggered, agg[p].date)
       THEN AggReturn(p)
       ELSE agg' = [agg EXCEPT ![p] = [@ EXCEPT
                        !.pc = "emit",
                        !.optimizationId = OptimizationId(agg[p].date, clock),
                        !.triggeredAt = clock]]
    /\ UNCHANGED <<ingestVars, sensorReadingCreated, usageDaily, optimizationTriggered, userPreferences,
                   optimizationRequired, clock, prefWrites, lifeVars>>

\* STEP 5: the payload of optimization.required
RequiredEvent(a) ==
    [optimizationId |-> a.optimizationId,
     date |-> a.date,
     totalConsumption |-> a.dailyUsage.totalConsumption,
     threshold |-> a.dailyMax,
     excessAmount |-> a.dailyUsage.totalConsumption - a.dailyMax,
     triggeredAt |-> a.triggeredAt]

AggEmit(p) ==
    /\ agg[p].pc = "emit"
    /\ optimizationRequired' = Append(optimizationRequired, RequiredEvent(agg[p]))
    /\ agg' = [agg EXCEPT ![p].pc = "setGuard"]
    /\ UNCHANGED <<ingestVars, sensorReadingCreated, usageDaily, optimizationTriggered, userPreferences,
                   clock, prefWrites, lifeVars>>

\* await state.set('usage', `daily/${date}/optimizationTriggered`, true)
AggSetGuard(p) ==
    /\ agg[p].pc = "setGuard"
    /\ optimizationTriggered' = StateSet(optimizationTriggered, agg[p].date, TRUE)
    /\ AggReturn(p)
    /\ UNCHANGED <<ingestVars, sensorReadingCreated, usageDaily, userPreferences, optimizationRequired,
                   clock, prefWrites, lifeVars>>

\* The handler has no try block: a store operation or an emit that rejects
\* ends the run with the error, which goes to the caller.  The operation
\* that rejected has had no effect.
\* await state.get('usage', `daily/${date}`) rejects at delivery
AggGetUsageRaises(p, date, value, limit) ==
    /\ agg[p].pc = "idle"
    /\ \A q \in Readings : q < p => agg[q].pc # "idle"
    /\ Cardinality(AggActive) < limit
    /\ agg' = [agg EXCEPT ![p] = [AggThrew EXCEPT !.failedAt = "getUsage"]]
    /\ sensorReadingCreated' = Append(sensorReadingCreated,
                                      ReadingEvent(SensorOf(p), value, date))
    /\ UNCHANGED <<ingestVars, usageDaily, optimizationTriggered, userPreferences,
                   optimizationRequired, clock, prefWrites, lifeVars>>

\* a later store operation of the run rejects (lines 92, 105, 128, 157)
AggStoreRaises(p) ==
    /\ agg[p].pc \in {"setUsage", "getPrefs", "getGuard", "setGuard"}
    /\ agg' = [agg EXCEPT ![p] = [AggThrew EXCEPT !.failedAt = agg[p].pc]]
    /\ UNCHANGED <<ingestVars, sensorReadingCreated, usageDaily, optimizationTriggered,
                   userPreferences, optimizationRequired, clock, prefWrites, lifeVars>>

\* variant with a slip: the guard flag has been written by the time the emit
\* rejects, and stays
AggEmitRaisesMarked(p) ==
    /\ agg[p].pc = "emit"
    /\ agg' = [agg EXCEPT ![p] = [AggThrew EXCEPT !.failedAt = agg[p].pc]]
    /\ optimizationTriggered' = StateSet(optimizationTriggered, agg[p].date, TRUE)
    /\ UNCHANGED <<ingestVars, sensorReadingCreated, usageDaily,
                   userPreferences, optimizationRequired, clock, prefWrites, lifeVars>>

\* await emit(...) rejects (line 144): no event is on the topic
AggEmitRaises(p) ==
    /\ agg[p].pc = "emit"
    /\ agg' = [agg EXCEPT ![p] = [AggThrew EXCEPT !.failedAt = agg[p].pc]]
    /\ UNCHANGED <<ingestVars, sensorReadingCreated, usageDaily, optimizationTriggered,
                   userPreferences, optimizationRequired, clock, prefWrites, lifeVars>>

(***************************************************************************)
(* api.user.preferences                                                    *)
(***************************************************************************)
\* body.thresholds?.dailyMax ?? 100, body.thresholds?.peakHourLimit ?? 50
Preferences(bodyDailyMax) ==
    [dailyMax |-> IF bodyDailyMax = 0 THEN 100 ELSE bodyDailyMax,
     peakHourLimit |-> 50]

SetPreferences(bodyDailyMax) ==
    /\ prefWrites < MaxPrefWrites
    /\ prefWrites' = prefWrites + 1
    /\ userPreferences' = <<Preferences(bodyDailyMax)>>
    /\ UNCHANGED <<ingestVars, sensorReadingCreated, usageDaily, optimizationTriggered, optimizationRequired,
                   agg, clock, lifeVars>>

(***************************************************************************)
(* The clock.                                                              *)
(***************************************************************************)
Tick ==
    /\ clock < MaxClock
    /\ clock' = clock + 1
    /\ UNCHANGED <<ingestVars, optimizationRequired, aggVars, lifeVars>>

(***************************************************************************)
(* Decision Engine (src/ai/gemini-analyzer.ts).                            *)
(*                                                                         *)
(* Percentages are exact quotients <<numerator, denominator>> with a       *)
(* positive denominator; confidence is kept in hundredths (85 is 0.85).    *)
(***************************************************************************)
\* variants with a slip: a boundary counts for the upper tier; no cap
RatGTOrEqual(r, n) == r[1] >= n * r[2]

RatMinUncapped(cap, r) == r

RatGT(r, n) == r[1] > n * r[2]

\* Math.min(cap, r)
RatMin(cap, r) == IF RatGT(r, cap) THEN <<cap, 1>> ELSE r

\* (excessAmount / threshold) * 100
ExcessPercent(input) == <<input.excessAmount * 100, input.threshold>>

\* Number.prototype.toFixed(1) of a non-negative quotient, in tenths
ToFixed1(r) == (r[1] * 20 + r[2]) \div (2 * r[2])

fallbackAnalysis(input) ==
    LET excessPercent == ExcessPercent(input)
    IN IF RatGT(excessPercent, 20)
       THEN [action |-> "SHIFT_LOAD", targetWindow |-> "02:00-05:00",
             expectedSavingsPercent |-> RatMin(25, excessPercent),
             confidence |-> 85,
             reasoning |-> <<"High excess", ToFixed1(excessPercent)>>,
             source |-> "fallback"]
       ELSE IF RatGT(excessPercent, 10)
       THEN [action |-> "REDUCE_CONSUMPTION", targetWindow |-> "18:00-22:00",
             expectedSavingsPercent |-> RatMin(15, excessPercent),
             confidence |-> 78,
             reasoning |-> <<"Moderate excess", ToFixed1(excessPercent)>>,
             source |-> "fallback"]
       ELSE [action |-> "OPTIMIZE_SCHEDULING", targetWindow |-> "12:00-16:00",
             expectedSavingsPercent |-> RatMin(10, excessPercent),
             confidence |-> 72,
             reasoning |-> <<"Minor excess", ToFixed1(excessPercent)>>,
             source |-> "fallback"]

\* What the call of the model API yields: kind "error" (the request
\* raised), "unparsable" (JSON.parse raised) or "json" (the parsed object).
\* A text field that is missing holds Absent; a numeric field is <<>> when
\* missing and <<n>> otherwise; reasoning is <<>> or <<text, 0>>.
Absent == "absent"

AiReply(action, targetWindow, savings, confidence, reasoning) ==
    [kind |-> "json", action |-> action, targetWindow |-> targetWindow,
     expectedSavingsPercent |-> savings, confidence |-> confidence,
     reasoning |-> reasoning]

AiFailure(kind) ==
    [kind |-> kind, action |-> Absent, targetWindow |-> Absent,
     expectedSavingsPercent |-> <<>>, confidence |-> <<>>,
     reasoning |-> <<>>]

\* JavaScript falsiness of a parsed field
FalsyText(v) == v = Absent \/ v = ""

FalsyNumber(v) == v = <<>> \/ v = <<0>>

\* Math.min(hi, Math.max(lo, v)) on integers
Clamp(lo, hi, v) == IF v < lo THEN lo ELSE IF v > hi THEN hi ELSE v

\* lines 110-112: the required fields of the parsed reply
ValidAiResponse(parsed) ==
    ~ (FalsyText(parsed.action) \/ FalsyText(parsed.targetWindow)
       \/ parsed.confidence = <<>>)

\* lines 114-122
AiDecision(parsed) ==
    [action |-> parsed.action,
     targetWindow |-> parsed.targetWindow,
     expectedSavingsPercent |->
        <<Clamp(0, 30, IF FalsyNumber(parsed.expectedSavingsPercent) THEN 10
                       ELSE parsed.expectedSavingsPercent[1]), 1>>,
     confidence |-> Clamp(0, 100, parsed.confidence[1]),
     reasoning |-> IF parsed.reasoning = <<>>
                   THEN <<"AI-generated recommendation", 0>>
                   ELSE parsed.reasoning,
     source |-> "ai",
     model |-> "gemini-3-flash-preview"]

\* getGenAIClient raises when no client exists and no key is configured
ClientAvailable(client, key) == client \/ key

\* variant with a slip: the reply is used whether or not a client exists
analyzeWithGeminiAnyClient(input, client, key, reply) ==
    IF reply.kind = "json" /\ ValidAiResponse(reply)
    THEN AiDecision(reply)
    ELSE fallbackAnalysis(input)

\* analyzeWithGemini: the try block and its catch
analyzeWithGemini(input, client, key, reply) ==
    IF ClientAvailable(client, key) /\ reply.kind = "json" /\ ValidAiResponse(reply)
    THEN AiDecision(reply)
    ELSE fallbackAnalysis(input)

(***************************************************************************)
(* Lifecycle bounds and inputs.                                            *)
(***************************************************************************)
\* number of optimization.required events on the bus
NumOptimizations == 2
\* number of deliveries of optimization.required events (Orchestrator runs)
MaxOrchRuns == 2
\* number of deliveries of execution.requested events (Executor runs)
MaxExecRuns == 2
\* number of store operations of the Executor that may raise
MaxStoreFaults == 1
\* number of writes to the energyStatus stream that may raise
MaxStreamFaults == 1
\* number of Orchestrator and Executor handlers in flight at the same time
MaxInFlight == 2

OrchRuns == 1..MaxOrchRuns
ExecRuns == 1..MaxExecRuns

\* day totals of the optimization.required events of the lifecycle
\* specification, by date in turn (110 = 50+60, 160 = 50+50+60)
BreachTotals == <<110, 160>>

\* replies of the model API tried by the lifecycle specification
LifeReplies ==
    {AiFailure("error"),
     AiReply("REDUCE_CONSUMPTION", "17:00-21:00", <<20>>, <<90>>, <<"ai", 0>>)}

STATUS_PROGRESS(status) ==
    CASE status = "RECEIVED" -> 10
      [] status = "ANALYZING" -> 30
      [] status = "DECIDED" -> 60
      [] status = "EXECUTING" -> 80
      [] status = "COMPLETED" -> 100
      [] status = "FAILED" -> 100

\* { ...object, ...update }
Spread(object, update) ==
    [f \in (DOMAIN object) \cup (DOMAIN update) |->
        IF f \in DOMAIN update THEN update[f] ELSE object[f]]

(***************************************************************************)
(* Orchestrator handler (workflow.energy.optimize).                        *)
(***************************************************************************)
\* number of lifecycle handler runs between their delivery and their end
InFlight ==
    Cardinality({h \in DOMAIN orch : orch[h].pc \notin {"idle", "done"}})
    + Cardinality({x \in DOMAIN exec : exec[x].pc \notin {"idle", "done", "threw"}})

NoEvent == [optimizationId |-> <<0, 0>>, date |-> 0, totalConsumption |-> 0,
            threshold |-> 0, excessAmount |-> 0, triggeredAt |-> 0]

NoDecision == [action |-> Absent]

\* persisted lists the records the run has written to the store, in order;
\* called tells that the run's analysis called client.models.generateContent
OrchIdle == [pc |-> "idle", input |-> NoEvent,
             optimizationState |-> [id |-> <<0, 0>>],
             decision |-> NoDecision, persisted |-> <<>>, called |-> FALSE]


\* lines 98-102
ReceivedState(input) ==
    [id |-> input.optimizationId, status |-> "RECEIVED",
     triggeredAt |-> input.triggeredAt]

\* delivery of the k-th optimization.required event to a new handler run
OrchStart(h, k) ==
    /\ orch[h].pc = "idle"
    /\ \A g \in OrchRuns : g < h => orch[g].pc # "idle"
    /\ InFlight < MaxInFlight
    /\ k \in DOMAIN optimizationRequired
    /\ orch' = [orch EXCEPT ![h] = [@ EXCEPT
                    !.pc = "setRECEIVED",
                    !.input = optimizationRequired[k],
                    !.optimizationState = ReceivedState(optimizationRequired[k])]]
    /\ UNCHANGED <<ingestVars, optimizationRequired, aggVars, clock, optimizations,
                   executionRequested, energyStatus, exec, apiKey, genAI,
                   storeFaults, streamFaults>>

\* await state.set('optimizations', optimizationId, optimizationState)
OrchPersist(h, status) ==
    /\ orch[h].pc = "set" \o status
    /\ optimizations' = StateSet(optimizations, orch[h].input.optimizationId,
                                 orch[h].optimizationState)
    /\ orch' = [orch EXCEPT ![h] = [@ EXCEPT !.pc = "pub" \o status,
                                             !.persisted =
                                                 Append(@, orch[h].optimizationState)]]
    /\ UNCHANGED <<ingestVars, optimizationRequired, aggVars, clock, executionRequested,
                   energyStatus, exec, apiKey, genAI, storeFaults, streamFaults>>

\* the entry publishStatus writes (lines 78-85)
StatusEntry(input, status, decision, now) ==
    Spread([id |-> input.optimizationId, optimizationId |-> input.optimizationId,
            status |-> status, progress |-> STATUS_PROGRESS(status),
            updatedAt |-> now],
           IF decision = NoDecision THEN <<>> ELSE [decision |-> decision])

\* variant with a slip: the dispatch follows the publication of DECIDED
OrchAfterPublishHasty(o, status) ==
    CASE status = "RECEIVED" ->
            [o EXCEPT !.pc = "setANALYZING",
                      !.optimizationState = [@ EXCEPT !.status = "ANALYZING"]]
      [] status = "ANALYZING" -> [o EXCEPT !.pc = "analyze"]
      [] status = "DECIDED" -> [o EXCEPT !.pc = "emit"]
      [] status = "EXECUTING" -> [o EXCEPT !.pc = "emit"]

\* variant with a slip: the analysis starts once RECEIVED is published
OrchAfterPublishEager(o, status) ==
    CASE status = "RECEIVED" -> [o EXCEPT !.pc = "analyze"]
      [] status = "ANALYZING" -> [o EXCEPT !.pc = "analyze"]
      [] status = "DECIDED" ->
            [o EXCEPT !.pc = "setEXECUTING",
                      !.optimizationState = [@ EXCEPT !.status = "EXECUTING"]]
      [] status = "EXECUTING" -> [o EXCEPT !.pc = "emit"]

\* the synchronous code after publishStatus(status) returns
OrchAfterPublish(o, status) ==
    CASE status = "RECEIVED" ->
            [o EXCEPT !.pc = "setANALYZING",
                      !.optimizationState = [@ EXCEPT !.status = "ANALYZING"]]
      [] status = "ANALYZING" -> [o EXCEPT !.pc = "analyze"]
      [] status = "DECIDED" ->
            [o EXCEPT !.pc = "setEXECUTING",
                      !.optimizationState = [@ EXCEPT !.status = "EXECUTING"]]
      [] status = "EXECUTING" -> [o EXCEPT !.pc = "emit"]

\* await publishStatus(status, decision): the stream write, or its failure,
\* which publishStatus catches and logs
OrchPublish(h, status, ok) ==
    /\ orch[h].pc = "pub" \o status
    /\ energyStatus' =
          IF ok
          THEN StateSet(energyStatus,
                        <<orch[h].input.date, orch[h].input.optimizationId>>,
                        StatusEntry(orch[h].input, status,
                                    IF status \in {"DECIDED", "EXECUTING"}
                                    THEN orch[h].decision ELSE NoDecision,
                                    clock))
          ELSE energyStatus
    /\ ok \/ streamFaults < MaxStreamFaults
    /\ streamFaults' = IF ok THEN streamFaults ELSE streamFaults + 1
    /\ orch' = [orch EXCEPT ![h] = OrchAfterPublish(@, status)]
    /\ UNCHANGED <<ingestVars, optimizationRequired, aggVars, clock, optimizations,
                   executionRequested, exec, apiKey, genAI, storeFaults>>

\* lines 137-143: the decision kept of the analysis result
OptimizationDecision(analysisResult) ==
    [action |-> analysisResult.action,
     targetWindow |-> analysisResult.targetWindow,
     expectedSavingsPercent |-> analysisResult.expectedSavingsPercent,
     confidence |-> analysisResult.confidence,
     reasoning |-> analysisResult.reasoning]

\* await analyzeWithGemini(...), then lines 137-146
OrchAnalyze(h, reply) ==
    /\ orch[h].pc = "analyze"
    /\ LET input == orch[h].input
           result == analyzeWithGemini(
                        [totalConsumption |-> input.totalConsumption,
                         threshold |-> input.threshold,
                         excessAmount |-> input.excessAmount,
                         date |-> input.date],
                        genAI, apiKey, reply)
           decision == OptimizationDecision(result)
       IN orch' = [orch EXCEPT ![h] = [@ EXCEPT
                      !.pc = "setDECIDED",
                      !.called = ClientAvailable(genAI, apiKey),
                      !.decision = decision,
                      !.optimizationState =
                          Spread(@, [status |-> "DECIDED", decision |-> decision])]]
    /\ genAI' = ClientAvailable(genAI, apiKey)
    /\ UNCHANGED <<ingestVars, optimizationRequired, aggVars, clock, optimizations,
                   executionRequested, energyStatus, exec, apiKey, storeFaults,
                   streamFaults>>

\* variant with a slip: the request carries no identifier of the optimization
ExecutionRequestUnaddressed(o) ==
    [optimizationId |-> OrchIdle.input.optimizationId,
     decision |-> o.decision,
     triggeredAt |-> o.input.triggeredAt,
     date |-> o.input.date]

\* variant with a slip: triggeredAt is stamped anew, later than the request's
ExecutionRequestRestamped(o) ==
    [optimizationId |-> o.input.optimizationId,
     decision |-> o.decision,
     triggeredAt |-> clock + 1,
     date |-> o.input.date]

\* lines 167-175: the payload of execution.requested
ExecutionRequest(o) ==
    [optimizationId |-> o.input.optimizationId,
     decision |-> o.decision,
     triggeredAt |-> o.input.triggeredAt,
     date |-> o.input.date]

OrchEmit(h) ==
    /\ orch[h].pc = "emit"
    /\ executionRequested' = Append(executionRequested, ExecutionRequest(orch[h]))
    /\ orch' = [orch EXCEPT ![h].pc = "done"]
    /\ UNCHANGED <<ingestVars, optimizationRequired, aggVars, clock, optimizations,
                   energyStatus, exec, apiKey, genAI, storeFaults, streamFaults>>

(***************************************************************************)
(* Executor handler (job.energy.execute).                                  *)
(***************************************************************************)
NoRequest == [optimizationId |-> <<0, 0>>, decision |-> NoDecision,
              triggeredAt |-> 0, date |-> 0]

NoResult == [success |-> FALSE, appliedAt |-> 0, details |-> <<>>]

\* A value raised in the try block: an Error with its message, or a value
\* that is no instance of Error.
Error(message) == [instanceOfError |-> TRUE, message |-> message]

NonError(value) == [instanceOfError |-> FALSE, message |-> value]

NoError == NonError(Absent)

\* what a failing store operation raises
StoreError == Error("store error")

\* what executeOptimization may reject with
ActuationErrors == {Error("actuation error"), NonError("rejected")}

\* error instanceof Error ? error.message : 'Unknown error'
ErrorMessage(error) ==
    IF error.instanceOfError THEN error.message ELSE "Unknown error"

\* foundCompleted tells that the store held status COMPLETED for the
\* identifier when the event was delivered (a redelivery after the terminal
\* write); nextState is the record the run is about to write; error is the
\* value caught by the catch block, and the value the run raises at its end;
\* event is the position on the queue of the event delivered to the run
ExecIdle == [pc |-> "idle", event |-> 0, input |-> NoRequest,
             executionResult |-> NoResult,
             nextState |-> [id |-> <<0, 0>>], foundCompleted |-> FALSE,
             timerStart |-> 0, error |-> NoError]

StoredStatus(id) == IF StateHas(optimizations, id) THEN optimizations[id].status ELSE Absent

\* the handler ends: by returning ("done") or by raising ("threw")
ExecEnd(x, how) ==
    exec' = [exec EXCEPT ![x] = [@ EXCEPT !.pc = how,
                                          !.nextState = ExecIdle.nextState]]

\* delivery of the k-th execution.requested event to a new handler run
ExecStart(x, k) ==
    /\ exec[x].pc = "idle"
    /\ \A y \in ExecRuns : y < x => exec[y].pc # "idle"
    /\ InFlight < MaxInFlight
    /\ k \in DOMAIN executionRequested
    /\ exec' = [exec EXCEPT ![x] = [@ EXCEPT
                    !.pc = "actuate",
                    !.event = k,
                    !.timerStart = clock,
                    !.input = executionRequested[k],
                    !.foundCompleted =
                        StoredStatus(executionRequested[k].optimizationId) = "COMPLETED"]]
    /\ UNCHANGED <<ingestVars, optimizationRequired, aggVars, clock, optimizations,
                   executionRequested, energyStatus, orch, apiKey, genAI,
                   storeFaults, streamFaults>>

\* executeOptimization (lines 133-154)
executeOptimization(decision, now) ==
    [success |-> TRUE,
     appliedAt |-> now,
     details |-> <<"Applied", decision.action, decision.targetWindow,
                   decision.expectedSavingsPercent>>]

\* await executeOptimization(decision, logger): the run resumes when its
\* timer of 100 ms, started at delivery, has expired; TIMER_TICKS of the
\* clock have passed by then
ExecActuate(x) ==
    /\ exec[x].pc = "actuate"
    /\ clock' = Max(clock, exec[x].timerStart + TIMER_TICKS)
    /\ exec' = [exec EXCEPT ![x] = [@ EXCEPT
                    !.pc = "getState",
                    !.executionResult = executeOptimization(exec[x].input.decision, clock')]]
    /\ UNCHANGED <<ingestVars, optimizationRequired, aggVars, optimizations,
                   executionRequested, energyStatus, orch, apiKey, genAI,
                   storeFaults, streamFaults>>

\* variant with a slip: completedAt is not written
CompletedStateUntimed(currentState, executionResult, now) ==
    Spread(currentState, [status |-> "COMPLETED",
                          executionResult |-> executionResult])

\* variant with a slip: the record is built anew, not spread from the one read
CompletedStateFresh(currentState, executionResult, now) ==
    [id |-> currentState.id, status |-> "COMPLETED", completedAt |-> now,
     executionResult |-> executionResult]

\* lines 73-78
CompletedState(currentState, executionResult, now) ==
    Spread(currentState, [status |-> "COMPLETED", completedAt |-> now,
                          executionResult |-> executionResult])

\* variant with a slip: the message of the error is not kept
FailureResultTerse(error, now) ==
    [success |-> FALSE, appliedAt |-> now,
     details |-> <<"Execution failed", "Unknown error">>]

\* lines 97-101 and 105-110
FailureResult(error, now) ==
    [success |-> FALSE, appliedAt |-> now,
     details |-> <<"Execution failed", ErrorMessage(error)>>]

FailedState(currentState, error, now) ==
    Spread(currentState, [status |-> "FAILED", completedAt |-> now,
                          executionResult |-> FailureResult(error, now)])

\* await state.get('optimizations', optimizationId) in the try block
ExecGetState(x) ==
    /\ exec[x].pc = "getState"
    /\ LET id == exec[x].input.optimizationId
       IN IF StateHas(optimizations, id)
          THEN exec' = [exec EXCEPT ![x] = [@ EXCEPT
                          !.pc = "setCompleted",
                          !.nextState = CompletedState(optimizations[id],
                                                       exec[x].executionResult, clock)]]
          ELSE ExecEnd(x, "done")
    /\ UNCHANGED <<ingestVars, optimizationRequired, aggVars, clock, optimizations,
                   executionRequested, energyStatus, orch, apiKey, genAI,
                   storeFaults, streamFaults>>

\* await state.set('optimizations', optimizationId, completedState)
ExecSetCompleted(x) ==
    /\ exec[x].pc = "setCompleted"
    /\ optimizations' = StateSet(optimizations, exec[x].input.optimizationId,
                                 exec[x].nextState)
    /\ ExecEnd(x, "done")
    /\ UNCHANGED <<ingestVars, optimizationRequired, aggVars, clock, executionRequested,
                   energyStatus, orch, apiKey, genAI, storeFaults, streamFaults>>

\* a store operation of the try block raises: control enters the catch block
ExecTryRaises(x) ==
    /\ exec[x].pc \in {"getState", "setCompleted"}
    /\ storeFaults < MaxStoreFaults
    /\ storeFaults' = storeFaults + 1
    /\ exec' = [exec EXCEPT ![x] = [@ EXCEPT !.pc = "catchGet",
                                             !.error = StoreError,
                                             !.nextState = ExecIdle.nextState]]
    /\ UNCHANGED <<ingestVars, optimizationRequired, aggVars, clock, optimizations,
                   executionRequested, energyStatus, orch, apiKey, genAI, streamFaults>>

\* await executeOptimization(decision, logger) rejects, before its timer is
\* set: control enters the catch block with the value it rejected with
ExecActuateRaises(x, error) ==
    /\ exec[x].pc = "actuate"
    /\ exec' = [exec EXCEPT ![x] = [@ EXCEPT !.pc = "catchGet",
                                             !.error = error]]
    /\ UNCHANGED <<ingestVars, optimizationRequired, aggVars, clock, optimizations,
                   executionRequested, energyStatus, orch, apiKey, genAI,
                   storeFaults, streamFaults>>

\* await state.get('optimizations', optimizationId) in the catch block
ExecCatchGet(x) ==
    /\ exec[x].pc = "catchGet"
    /\ LET id == exec[x].input.optimizationId
       IN IF StateHas(optimizations, id)
          THEN exec' = [exec EXCEPT ![x] = [@ EXCEPT
                          !.pc = "setFailed",
                          !.nextState = FailedState(optimizations[id],
                                                    exec[x].error, clock)]]
          ELSE ExecEnd(x, "threw")
    /\ UNCHANGED <<ingestVars, optimizationRequired, aggVars, clock, optimizations,
                   executionRequested, energyStatus, orch, apiKey, genAI,
                   storeFaults, streamFaults>>

\* await state.set('optimizations', optimizationId, failedState); throw error
ExecSetFailed(x) ==
    /\ exec[x].pc = "setFailed"
    /\ optimizations' = StateSet(optimizations, exec[x].input.optimizationId,
                                 exec[x].nextState)
    /\ ExecEnd(x, "threw")
    /\ UNCHANGED <<ingestVars, optimizationRequired, aggVars, clock, executionRequested,
                   energyStatus, orch, apiKey, genAI, storeFaults, streamFaults>>

(***************************************************************************)
(* Ingestion API (api.sensor.ingest), POST /api/sensor/ingest.             *)
(*                                                                         *)
(* A field of the request body is a JSON value with its typeof: a string   *)
(* (text), a number (number) or undefined (the field is missing).          *)
(***************************************************************************)
\* number of POSTs to /api/sensor/ingest
MaxRequests == 2

Requests == 1..MaxRequests

JsString(text) == [type |-> "string", text |-> text, number |-> 0]

JsNumber(number) == [type |-> "number", text |-> "", number |-> number]

JsUndefined == [type |-> "undefined", text |-> "", number |-> 0]

\* the request bodies tried
IngestBodies ==
    [sensorId : {JsUndefined, JsNumber(123), JsString(""), JsString("sensor-1")},
     value : {JsUndefined, JsString("50"), JsNumber(-10), JsNumber(0), JsNumber(50)}]

\* clock ticks per calendar day: timestamp.split('T')[0]
TICKS_PER_DAY == 1

DateOf(timestamp) == (timestamp \div TICKS_PER_DAY) + 1

NoResponse == [status |-> 0, success |-> FALSE, error |-> ""]

IngestIdle == [pc |-> "idle",
               body |-> [sensorId |-> JsUndefined, value |-> JsUndefined],
               timestamp |-> 0, response |-> NoResponse]

\* variant with a slip: a value of 0 is turned away
ValidValuePositive(value) == value.type = "number" /\ value.number > 0

\* line 49: !body.sensorId || typeof body.sensorId !== 'string' is false
ValidSensorId(sensorId) == sensorId.type = "string" /\ sensorId.text # ""

\* line 57: typeof body.value !== 'number' || body.value < 0 is false
ValidValue(value) == value.type = "number" /\ value.number >= 0

BadRequest(error) == [status |-> 400, success |-> FALSE, error |-> error]

Created == [status |-> 201, success |-> TRUE, error |-> ""]

\* lines 71-77, unit and type defaulted
SensorReading(r) ==
    [sensorId |-> r.body.sensorId.text, value |-> r.body.value.number,
     unit |-> "kWh", type |-> "energy", timestamp |-> r.timestamp]

\* the request arrives: lines 35-63
IngestStart(r, body) ==
    /\ ingest[r].pc = "idle"
    /\ \A q \in Requests : q < r => ingest[q].pc # "idle"
    /\ ingest' = [ingest EXCEPT ![r] =
          IF ~ ValidSensorId(body.sensorId)
          THEN [@ EXCEPT !.pc = "done", !.body = body, !.timestamp = clock,
                         !.response = BadRequest("sensorId is required")]
          ELSE IF ~ ValidValue(body.value)
          THEN [@ EXCEPT !.pc = "done", !.body = body, !.timestamp = clock,
                         !.response =
                             BadRequest("value must be a non-negative number")]
          ELSE [@ EXCEPT !.pc = "setSensor", !.body = body, !.timestamp = clock]]
    /\ UNCHANGED <<sensors, usageRaw, optimizationRequired, aggVars, clock, lifeVars>>

\* await state.set('sensors', sensorId, sensorState)
IngestSetSensor(r) ==
    /\ ingest[r].pc = "setSensor"
    /\ sensors' = StateSet(sensors, ingest[r].body.sensorId.text,
                           [latestReading |-> SensorReading(ingest[r]),
                            lastUpdated |-> ingest[r].timestamp])
    /\ ingest' = [ingest EXCEPT ![r].pc = "setRaw"]
    /\ UNCHANGED <<usageRaw, optimizationRequired, aggVars, clock, lifeVars>>

\* await state.set('usage', `raw/${timestamp}`, sensorReading)
IngestSetRaw(r) ==
    /\ ingest[r].pc = "setRaw"
    /\ usageRaw' = StateSet(usageRaw, ingest[r].timestamp, SensorReading(ingest[r]))
    /\ ingest' = [ingest EXCEPT ![r].pc = "emit"]
    /\ UNCHANGED <<sensors, optimizationRequired, aggVars, clock, lifeVars>>

\* await emit({topic: sensor.reading.created, ...}), then the 201 response
IngestEmit(r) ==
    /\ ingest[r].pc = "emit"
    /\ sensorReadingCreated' =
          Append(sensorReadingCreated,
                 Spread(SensorReading(ingest[r]),
                        [date |-> DateOf(ingest[r].timestamp)]))
    /\ ingest' = [ingest EXCEPT ![r] = [@ EXCEPT !.pc = "done",
                                                 !.response = Created]]
    /\ UNCHANGED <<sensors, usageRaw, usageDaily, optimizationTriggered,
                   userPreferences, agg, prefWrites, optimizationRequired,
                   clock, lifeVars>>

(***************************************************************************)
(* Specifications.                                                         *)
(***************************************************************************)
IngestInit ==
    /\ sensors = <<>>
    /\ usageRaw = <<>>
    /\ ingest = [r \in Requests |-> IngestIdle]

AggInit ==
    /\ sensorReadingCreated = <<>>
    /\ usageDaily = <<>>
    /\ optimizationTriggered = <<>>
    /\ userPreferences = <<>>
    /\ agg = [p \in Readings |-> AggIdle]
    /\ prefWrites = 0

LifeIdle ==
    /\ optimizations = <<>>
    /\ executionRequested = <<>>
    /\ energyStatus = <<>>
    /\ orch = [h \in OrchRuns |-> OrchIdle]
    /\ exec = [x \in ExecRuns |-> ExecIdle]
    /\ genAI = FALSE
    /\ storeFaults = 0
    /\ streamFaults = 0

\* the pipeline before the first reading
Init ==
    /\ IngestInit
    /\ AggInit
    /\ LifeIdle
    /\ optimizationRequired = <<>>
    /\ clock = 0
    /\ apiKey = FALSE

AggStep(limit) ==
    \E p \in Readings :
        \/ \E date \in Dates, value \in Values : AggGetUsage(p, date, value, limit)
        \/ AggSetUsage(p)
        \/ AggGetPrefs(p)
        \/ AggGetGuard(p)
        \/ AggEmit(p)
        \/ AggSetGuard(p)

PrefStep == \E b \in PrefBodies : SetPreferences(b)

\* readings handled concurrently, up to MaxActive handlers in flight
AggNext == AggStep(MaxActive) \/ PrefStep \/ Tick

SpecAgg == Init /\ [][AggNext]_vars

\* readings handled one after another: a handler starts when none is in flight
AggSeqNext == AggStep(1) \/ PrefStep \/ Tick

SpecAggSeq == Init /\ [][AggSeqNext]_vars

\* readings handled one after another, every reading event deliverable more
\* than once
AggRedeliverStep ==
    \E p \in Readings, k \in Readings : AggRedeliver(p, k, 1)

AggRedeliverNext == AggStep(1) \/ AggRedeliverStep \/ PrefStep \/ Tick

SpecAggRedeliver == Init /\ [][AggRedeliverNext]_vars

\* readings handled concurrently by a store and a bus that may fail: any
\* awaited operation of a handler may reject
AggFaultStep ==
    \E p \in Readings :
        \/ \E date \in Dates, value \in Values : AggGetUsageRaises(p, date, value, MaxActive)
        \/ AggStoreRaises(p)
        \/ AggEmitRaises(p)

AggFaultNext == AggStep(MaxActive) \/ AggFaultStep \/ PrefStep \/ Tick

SpecAggFault == Init /\ [][AggFaultNext]_vars

\* The lifecycle downstream of the Aggregator: the bus holds one
\* optimization.required event per breached date, as RequiredEvent builds
\* it at clock 0 under the default threshold, and delivers every event at
\* least once.
BreachEvent(date, total) ==
    RequiredEvent([AggIdle EXCEPT
        !.date = date,
        !.dailyUsage = [NewDailyUsage(date) EXCEPT !.totalConsumption = total],
        !.dailyMax = DEFAULT_DAILY_MAX,
        !.optimizationId = OptimizationId(date, 0),
        !.triggeredAt = 0])

LifeInit ==
    /\ IngestInit
    /\ AggInit
    /\ LifeIdle
    /\ optimizationRequired =
          [k \in 1..NumOptimizations |->
              BreachEvent(k, BreachTotals[((k - 1) % Len(BreachTotals)) + 1])]
    /\ clock = 0
    /\ apiKey \in BOOLEAN

Statuses == {"RECEIVED", "ANALYZING", "DECIDED", "EXECUTING"}

OrchStep ==
    \E h \in OrchRuns :
        \/ \E k \in 1..NumOptimizations : OrchStart(h, k)
        \/ \E status \in Statuses : OrchPersist(h, status)
        \/ \E status \in Statuses, ok \in BOOLEAN : OrchPublish(h, status, ok)
        \/ \E reply \in LifeReplies : OrchAnalyze(h, reply)
        \/ OrchEmit(h)

ExecStep ==
    \E x \in ExecRuns :
        \/ \E k \in 1..MaxOrchRuns : ExecStart(x, k)
        \/ ExecActuate(x)
        \/ ExecGetState(x)
        \/ ExecSetCompleted(x)
        \/ ExecTryRaises(x)
        \/ ExecCatchGet(x)
        \/ ExecSetFailed(x)

LifeNext == OrchStep \/ ExecStep

SpecLife == LifeInit /\ [][LifeNext]_vars

\* The Executor on its own.  The Orchestrator has handled the first
\* optimization.required event with the fallback decision and left its
\* state at EXECUTING; the queue holds its execution.requested event and one
\* for an identifier the store has no state of.  Every event is deliverable
\* more than once, executeOptimization may reject, and the store operations
\* of the try block may raise.
DispatchedRun(event) ==
    [OrchIdle EXCEPT
        !.pc = "done",
        !.input = event,
        !.decision = OptimizationDecision(fallbackAnalysis(event)),
        !.optimizationState =
            Spread(ReceivedState(event),
                   [status |-> "EXECUTING",
                    decision |-> OptimizationDecision(fallbackAnalysis(event))])]

ExecInit ==
    /\ IngestInit
    /\ AggInit
    /\ optimizationRequired =
          [k \in 1..NumOptimizations |->
              BreachEvent(k, BreachTotals[((k - 1) % Len(BreachTotals)) + 1])]
    /\ clock = 0
    /\ apiKey = FALSE
    /\ genAI = FALSE
    /\ optimizations =
          StateSet(<<>>, optimizationRequired[1].optimizationId,
                   DispatchedRun(optimizationRequired[1]).optimizationState)
    /\ executionRequested =
          [k \in 1..NumOptimizations |->
              ExecutionRequest(DispatchedRun(optimizationRequired[k]))]
    /\ energyStatus = <<>>
    /\ orch = [h \in OrchRuns |-> OrchIdle]
    /\ exec = [x \in ExecRuns |-> ExecIdle]
    /\ storeFaults = 0
    /\ streamFaults = 0

ExecFaultStep ==
    \E x \in ExecRuns, error \in ActuationErrors : ExecActuateRaises(x, error)

ExecNext == ExecStep \/ ExecFaultStep

SpecExec == ExecInit /\ [][ExecNext]_vars

\* The Decision Engine under one run of the Orchestrator.  The bus holds
\* one optimization.required event whose threshold and excess are drawn to
\* cover the tiers of the fallback and their boundaries (with threshold 30:
\* 3 is 10%, 6 is 20%, 7 is 23.3%); the credential is configured or not; the
\* call of the model API may yield any of DecideReplies.
DecideThresholds == {30, 100}

DecideExcesses == {1, 3, 6, 7, 10, 11, 15, 20, 21, 25, 100, 200}

DecideReplies ==
    {AiFailure("error"),
     AiFailure("unparsable"),
     AiReply(Absent, "17:00-21:00", <<20>>, <<90>>, <<"ai", 0>>),
     AiReply("SHIFT_LOAD", Absent, <<20>>, <<90>>, <<"ai", 0>>),
     AiReply("SHIFT_LOAD", "01:00-04:00", <<20>>, <<>>, <<"ai", 0>>),
     AiReply("", "17:00-21:00", <<20>>, <<90>>, <<"ai", 0>>),
     AiReply("REDUCE_CONSUMPTION", "17:00-21:00", <<20>>, <<90>>, <<"ai", 0>>),
     AiReply("SHIFT_LOAD", "01:00-04:00", <<45>>, <<150>>, <<>>),
     AiReply("OPTIMIZE_SCHEDULING", "12:00-15:00", <<0>>, <<0>>, <<>>),
     AiReply("INCREASE_LOAD", "00:00-01:00", <<-5>>, <<50>>, <<"ai", 0>>)}

DecideEvent(threshold, excessAmount) ==
    RequiredEvent([AggIdle EXCEPT
        !.date = 1,
        !.dailyUsage = [NewDailyUsage(1) EXCEPT
                            !.totalConsumption = threshold + excessAmount],
        !.dailyMax = threshold,
        !.optimizationId = OptimizationId(1, 0),
        !.triggeredAt = 0])

DecideInit ==
    /\ IngestInit
    /\ AggInit
    /\ LifeIdle
    /\ clock = 0
    /\ apiKey \in BOOLEAN
    /\ \E threshold \in DecideThresholds, excessAmount \in DecideExcesses :
          optimizationRequired = <<DecideEvent(threshold, excessAmount)>>

\* the first delivery of the event, the stream responding
DecideNext ==
    \/ OrchStart(1, 1)
    \/ \E status \in Statuses : OrchPersist(1, status)
    \/ \E status \in Statuses : OrchPublish(1, status, TRUE)
    \/ \E reply \in DecideReplies : OrchAnalyze(1, reply)
    \/ OrchEmit(1)

SpecDecide == DecideInit /\ [][DecideNext]_vars

\* The ingestion API on its own: requests whose handlers interleave at
\* their awaits, while the clock runs.
IngestStep ==
    \E r \in Requests :
        \/ \E body \in IngestBodies : IngestStart(r, body)
        \/ IngestSetSensor(r)
        \/ IngestSetRaw(r)
        \/ IngestEmit(r)

IngestNext == IngestStep \/ Tick

SpecIngest == Init /\ [][IngestNext]_vars

\* process.env.GEMINI_API_KEY is set or deleted while the process runs
SetCredential(key) ==
    /\ key # apiKey
    /\ apiKey' = key
    /\ UNCHANGED <<ingestVars, optimizationRequired, aggVars, clock, optimizations,
                   executionRequested, energyStatus, orch, exec, genAI,
                   storeFaults, streamFaults>>

CredentialStep == \E key \in BOOLEAN : SetCredential(key)

\* Runs of the Orchestrator, and so calls of analyzeWithGemini, in a process
\* whose credential may change between and during them.
CredentialNext == OrchStep \/ CredentialStep

SpecCredential == LifeInit /\ [][CredentialNext]_vars

\* The lifecycle under fair delivery.  A handler run that has been started
\* goes on at each of its awaits (the store, the stream, the queue and the
\* Decision Engine respond), and every execution.requested event on the
\* queue is delivered at least once.  The runs are bounded, so a delivery is
\* admitted only while a run of the Executor is left for every
\* execution.requested event not yet delivered, whether emitted already or
\* still to be emitted by an Orchestrator run under way.
OrchReceived == {h \in OrchRuns : orch[h].pc # "idle"}

\* the positions on the queue of the execution.requested events delivered
ExecDelivered == {exec[x].event : x \in {y \in ExecRuns : exec[y].pc # "idle"}}

ExecOwed == Cardinality(OrchReceived) - Cardinality(ExecDelivered)

ExecIdleRuns == Cardinality({x \in ExecRuns : exec[x].pc = "idle"})

FairOrchStart(h, k) ==
    /\ ExecIdleRuns > ExecOwed
    /\ OrchStart(h, k)

FairExecStart(x, k) ==
    /\ k \in ExecDelivered => ExecIdleRuns > ExecOwed
    /\ ExecStart(x, k)

\* the first delivery of the k-th execution.requested event
ExecFirstDelivery(k) ==
    /\ k \notin ExecDelivered
    /\ \E x \in ExecRuns : ExecStart(x, k)

\* a started run of the Orchestrator resumes at its await
OrchProgress(h) ==
    \/ \E status \in Statuses : OrchPersist(h, status)
    \/ \E status \in Statuses, ok \in BOOLEAN : OrchPublish(h, status, ok)
    \/ \E reply \in LifeReplies : OrchAnalyze(h, reply)
    \/ OrchEmit(h)

\* a started run of the Executor resumes at its await
ExecProgress(x) ==
    \/ ExecActuate(x)
    \/ ExecGetState(x)
    \/ ExecSetCompleted(x)
    \/ ExecTryRaises(x)
    \/ ExecCatchGet(x)
    \/ ExecSetFailed(x)

FairOrchStep ==
    \E h \in OrchRuns :
        \/ \E k \in 1..NumOptimizations : FairOrchStart(h, k)
        \/ OrchProgress(h)

FairExecStep ==
    \E x \in ExecRuns :
        \/ \E k \in 1..MaxOrchRuns : FairExecStart(x, k)
        \/ ExecProgress(x)

FairNext == FairOrchStep \/ FairExecStep

Fairness ==
    /\ \A h \in OrchRuns : WF_vars(OrchProgress(h))
    /\ \A x \in ExecRuns : WF_vars(ExecProgress(x))
    /\ \A k \in 1..MaxOrchRuns : WF_vars(ExecFirstDelivery(k))

SpecLifeFair == LifeInit /\ [][FairNext]_vars /\ Fairness

\* The lifecycle with every event delivered exactly once: an
\* optimization.required event goes to one run of the Orchestrator and an
\* execution.requested event to one run of the Executor.
OnceOrchStart(h, k) ==
    /\ \A g \in OrchRuns :
          orch[g].pc # "idle" => orch[g].input # optimizationRequired[k]
    /\ OrchStart(h, k)

OnceExecStart(x, k) ==
    /\ k \notin ExecDelivered
    /\ ExecStart(x, k)

OnceOrchStep ==
    \E h \in OrchRuns :
        \/ \E k \in 1..NumOptimizations : OnceOrchStart(h, k)
        \/ OrchProgress(h)

OnceExecStep ==
    \E x \in ExecRuns :
        \/ \E k \in 1..MaxOrchRuns : OnceExecStart(x, k)
        \/ ExecProgress(x)

OnceNext == OnceOrchStep \/ OnceExecStep

SpecLifeOnce == LifeInit /\ [][OnceNext]_vars

\* The Orchestrator with a model API that may stay silent.
\* analyzeWithGemini returns at once with the fallback when no client is
\* available (getGenAIClient throws, lines 21-30, and the catch at lines
\* 132-139 answers); with a client it awaits
\* client.models.generateContent (line 92) and resumes when the reply, or
\* the failure, of the model API arrives.  No timer is set around the call,
\* in analyzeWithGemini or in the handler, so nothing else resumes the run.
OrchAnalyzeUnaided(h) ==
    /\ ~ ClientAvailable(genAI, apiKey)
    /\ \E reply \in LifeReplies : OrchAnalyze(h, reply)

\* the awaits of a started run that do not depend on the model API
OrchLocalProgress(h) ==
    \/ \E status \in Statuses : OrchPersist(h, status)
    \/ \E status \in Statuses, ok \in BOOLEAN : OrchPublish(h, status, ok)
    \/ OrchAnalyzeUnaided(h)
    \/ OrchEmit(h)

SilentFairness == \A h \in OrchRuns : WF_vars(OrchLocalProgress(h))

SpecAiSilent == LifeInit /\ [][OrchStep]_vars /\ SilentFairness

(***************************************************************************)
(* Claims.                                                                 *)
(***************************************************************************)
\* number of optimization.required events emitted for a date
EmittedFor(date) ==
    Cardinality({k \in DOMAIN optimizationRequired :
                    optimizationRequired[k].date = date})

\* C1: when the readings of a date are processed one after another, at
\* most one optimization.required event is ever emitted for that date,
\* however many later readings keep the total above dailyMax.
C1_AtMostOneEventPerDate == \A d \in Dates : EmittedFor(d) <= 1

\* C1 witness: a date with its one event, no handler in flight, and a total
\* that has grown past the emitted one and is above the current dailyMax.
C1_Witness ==
    /\ AggActive = {}
    /\ \E k \in DOMAIN optimizationRequired :
          LET e == optimizationRequired[k]
          IN /\ EmittedFor(e.date) = 1
             /\ usageDaily[e.date].totalConsumption > e.totalConsumption
             /\ usageDaily[e.date].totalConsumption > ThresholdDailyMax(userPreferences)

\* C2: when readings of the same date are processed concurrently, at most
\* one of them emits an optimization.required event for that date: no two
\* emitted events carry the same date.
C2_NoTwoEmittersPerDate ==
    \A j, k \in DOMAIN optimizationRequired :
        j # k => optimizationRequired[j].date # optimizationRequired[k].date

\* C3: whenever an optimization.required event has been emitted for a date,
\* the guard flag of that date has already been written true (the flag is
\* set before, or together with, the emission).
C3_GuardSetBeforeEmit ==
    \A k \in DOMAIN optimizationRequired :
        AlreadyTriggered(optimizationTriggered, optimizationRequired[k].date)

\* the handler has found the total above dailyMax (it is past STEP 4)
Breaching(p) == agg[p].pc \in {"getGuard", "emit", "setGuard"}

\* C4: with readings processed one after another, when the processing of a
\* reading that found the day's total above dailyMax completes, exactly one
\* optimization.required event has been emitted for its date.
C4_ExactlyOneEventOnBreach ==
    [][\A p \in Readings, d \in Dates :
          (Breaching(p) /\ agg[p].date = d /\ agg'[p].pc = "done")
              => EmittedFor(d)' = 1]_vars

\* C4 witness: the breaching reading has just completed: the stored total
\* of the date is the emitted one, it is the sum of several readings, the
\* guard is set and the one event is on the bus.
C4_Witness ==
    /\ AggActive = {}
    /\ \E k \in DOMAIN optimizationRequired :
          LET e == optimizationRequired[k]
          IN /\ EmittedFor(e.date) = 1
             /\ AlreadyTriggered(optimizationTriggered, e.date)
             /\ usageDaily[e.date].totalConsumption = e.totalConsumption
             /\ usageDaily[e.date].readingCount >= 2

\* the lifecycle order: the statuses that may follow a status
NextStatuses(status) ==
    CASE status = "RECEIVED" -> {"ANALYZING"}
      [] status = "ANALYZING" -> {"DECIDED"}
      [] status = "DECIDED" -> {"EXECUTING"}
      [] status = "EXECUTING" -> {"COMPLETED", "FAILED"}
      [] OTHER -> {}

Terminal == {"COMPLETED", "FAILED"}

\* C5: every change of the persisted status of an identifier goes to the
\* immediately next lifecycle state, also when events are delivered more
\* than once: never backward, never skipping.
C5_StatusStepsForward ==
    [][\A id \in DOMAIN optimizations :
          optimizations'[id].status # optimizations[id].status
              => optimizations'[id].status \in NextStatuses(optimizations[id].status)]_vars

\* C6: once the status of an identifier is COMPLETED or FAILED no later
\* operation changes it, whatever is redelivered.
C6_TerminalIsFinal ==
    [][\A id \in DOMAIN optimizations :
          optimizations[id].status \in Terminal
              => optimizations'[id].status = optimizations[id].status]_vars

\* the part of a stored record the terminal write sets
TerminalPart(id) ==
    LET r == optimizations[id]
    IN <<r.status,
         IF "executionResult" \in DOMAIN r THEN <<r.executionResult>> ELSE <<>>,
         IF "completedAt" \in DOMAIN r THEN <<r.completedAt>> ELSE <<>> >>

\* C7: a run of execute() delivered when the state of its identifier is
\* already COMPLETED does not run the actuation step, and none of its steps
\* changes status, executionResult or completedAt of the stored record.
C7_RedeliveryIsNoOp ==
    [][\A x \in ExecRuns, id \in DOMAIN optimizations :
          (exec[x].foundCompleted /\ exec[x].input.optimizationId = id
           /\ exec'[x] # exec[x])
              => /\ exec[x].pc # "actuate"
                 /\ TerminalPart(id)' = TerminalPart(id)]_vars

\* C8: in every stored OptimizationState, decision is present if and only
\* if status is DECIDED, EXECUTING, COMPLETED or FAILED.
C8_DecisionIffDecided ==
    \A id \in DOMAIN optimizations :
        ("decision" \in DOMAIN optimizations[id])
            <=> optimizations[id].status \in {"DECIDED", "EXECUTING", "COMPLETED", "FAILED"}

\* C9: in every stored OptimizationState, executionResult is present if and
\* only if status is COMPLETED or FAILED, and so is completedAt.
C9_ResultIffTerminal ==
    \A id \in DOMAIN optimizations :
        \A f \in {"executionResult", "completedAt"} :
            (f \in DOMAIN optimizations[id])
                <=> optimizations[id].status \in Terminal

\* C9 witness: one identifier stored FAILED with its failure result while
\* another run of the Orchestrator has a record without result in the store.
C9_Witness ==
    \E id \in DOMAIN optimizations :
        /\ optimizations[id].status = "FAILED"
        /\ optimizations[id].executionResult.success = FALSE
        /\ \E x \in ExecRuns : exec[x].pc = "threw" /\ exec[x].input.optimizationId = id

LifecycleOrder == <<"RECEIVED", "ANALYZING", "DECIDED", "EXECUTING">>

\* the statuses of the records a run of the Orchestrator has persisted
PersistedStatuses(h) == [i \in DOMAIN orch[h].persisted |-> orch[h].persisted[i].status]

OrchDispatched == {h \in OrchRuns : orch[h].pc = "done"}

\* C10: a run of the Orchestrator persists RECEIVED, ANALYZING, DECIDED and
\* EXECUTING in that order and nothing else; it dispatches only after
\* EXECUTING is persisted; it dispatches one execution.requested event, with
\* the identifier, the decision it persisted and the triggeredAt of the
\* request; and it ends with its state at EXECUTING.
C10_OrchestratorRun ==
    /\ Len(executionRequested) = Cardinality(OrchDispatched)
    /\ \A h \in OrchRuns :
          /\ PersistedStatuses(h) = SubSeq(LifecycleOrder, 1, Len(orch[h].persisted))
          /\ orch[h].pc = "done" =>
                /\ PersistedStatuses(h) = LifecycleOrder
                /\ orch[h].optimizationState.status = "EXECUTING"
                /\ orch[h].persisted[3].decision = orch[h].persisted[4].decision
                /\ \E k \in DOMAIN executionRequested :
                      /\ executionRequested[k].optimizationId = orch[h].input.optimizationId
                      /\ executionRequested[k].decision = orch[h].persisted[4].decision
                      /\ executionRequested[k].triggeredAt = orch[h].input.triggeredAt

\* C10 witness: a run of the Orchestrator has ended after its dispatch, and
\* the Executor has since written the terminal status the run left open.
C10_Witness ==
    \E h \in OrchRuns :
        /\ orch[h].pc = "done"
        /\ Len(executionRequested) >= 1
        /\ optimizations[orch[h].input.optimizationId].status = "COMPLETED"

\* the fields of a stored record the terminal write leaves as they are
ForwardPart(r) == [f \in (DOMAIN r) \ {"status", "completedAt", "executionResult"} |-> r[f]]

\* C11: the step by which a run of the Executor whose actuation succeeded
\* writes the store leaves the record of its identifier with status
\* COMPLETED, completedAt set, executionResult.success true and every other
\* field as it was; and no step of a run changes the store while the store
\* has no state of the run's identifier: such a run returns having written
\* nothing.
C11_CompletedWrite ==
    [][\A x \in ExecRuns :
          LET id == exec[x].input.optimizationId
          IN /\ (exec[x].pc = "setCompleted" /\ exec'[x].pc = "done") =>
                   /\ id \in DOMAIN optimizations
                   /\ optimizations'[id].status = "COMPLETED"
                   /\ "completedAt" \in DOMAIN optimizations'[id]
                   /\ optimizations'[id].executionResult.success
                   /\ optimizations'[id].executionResult = exec[x].executionResult
                   /\ ForwardPart(optimizations'[id]) = ForwardPart(optimizations[id])
             /\ (exec[x].pc = "getState" /\ exec'[x].pc = "setCompleted") =>
                   id \in DOMAIN optimizations
             /\ (exec'[x] # exec[x] /\ exec[x].pc # "idle"
                 /\ id \notin DOMAIN optimizations) =>
                   /\ optimizations' = optimizations
                   /\ exec'[x].pc \in {"getState", "catchGet", "done", "threw"}]_vars

\* C11 witness: one run has returned after writing COMPLETED with a
\* successful result over the state of its identifier, and another run has
\* returned for an identifier the store has no state of.
C11_Witness ==
    \E x, y \in ExecRuns :
        /\ exec[x].pc = "done" /\ exec[y].pc = "done"
        /\ LET id == exec[x].input.optimizationId
           IN /\ id \in DOMAIN optimizations
              /\ optimizations[id].status = "COMPLETED"
              /\ optimizations[id].executionResult.success
              /\ "completedAt" \in DOMAIN optimizations[id]
        /\ exec[y].input.optimizationId \notin DOMAIN optimizations

\* C12: a run of the Executor whose actuation step (or a store operation of
\* its try block) raised, and which finds a state of its identifier in the
\* store, writes that state back with status FAILED, completedAt set and an
\* executionResult with success false whose details hold the message of
\* the error, every other field as it was; the run raises only at the step
\* of that write or, when the store has no state of the identifier, after
\* the read; and the value it raises is the one it caught.
C12_FailedWrite ==
    [][\A x \in ExecRuns :
          LET id == exec[x].input.optimizationId
          IN /\ (exec[x].pc # "threw" /\ exec'[x].pc = "threw") =>
                   /\ exec[x].error # NoError
                   /\ exec'[x].error = exec[x].error
                   /\ \/ /\ exec[x].pc = "setFailed"
                         /\ id \in DOMAIN optimizations
                         /\ optimizations'[id].status = "FAILED"
                         /\ "completedAt" \in DOMAIN optimizations'[id]
                         /\ ~ optimizations'[id].executionResult.success
                         /\ optimizations'[id].executionResult.details[1] = "Execution failed"
                         /\ exec[x].error.instanceOfError =>
                               optimizations'[id].executionResult.details[2]
                                   = exec[x].error.message
                         /\ ForwardPart(optimizations'[id]) = ForwardPart(optimizations[id])
                      \/ /\ exec[x].pc = "catchGet"
                         /\ id \notin DOMAIN optimizations
                         /\ optimizations' = optimizations
             /\ (exec[x].pc = "catchGet" /\ exec'[x] # exec[x]
                 /\ id \in DOMAIN optimizations) =>
                   /\ exec'[x].pc = "setFailed"
                   /\ exec'[x].error = exec[x].error]_vars

\* C12 witness: a run whose actuation step raised has raised the same error
\* to the queue, and the state of its identifier is stored FAILED with the
\* message of that error in the details of its result.
C12_Witness ==
    \E x \in ExecRuns :
        /\ exec[x].pc = "threw"
        /\ exec[x].error = Error("actuation error")
        /\ LET id == exec[x].input.optimizationId
           IN /\ id \in DOMAIN optimizations
              /\ optimizations[id].status = "FAILED"
              /\ "completedAt" \in DOMAIN optimizations[id]
              /\ optimizations[id].executionResult.success = FALSE
              /\ optimizations[id].executionResult.details[2] = "actuation error"

\* the values of the readings submitted for a date, in order of delivery
RECURSIVE SubmittedValues(_, _)
SubmittedValues(events, date) ==
    IF events = <<>> THEN <<>>
    ELSE IF events[1].date = date
         THEN <<events[1].value>> \o SubmittedValues(Tail(events), date)
         ELSE SubmittedValues(Tail(events), date)

\* the sensors the readings submitted for a date came from
SubmittingSensors(date) ==
    {sensorReadingCreated[k].sensorId :
        k \in {j \in DOMAIN sensorReadingCreated : sensorReadingCreated[j].date = date}}

\* a handler has read the usage of the date and not yet written it back
Unpersisted(date) == \E p \in Readings : agg[p].pc = "setUsage" /\ agg[p].date = date

\* C13: with readings processed one after another, once every reading
\* submitted for a date has been persisted, the stored totalConsumption of
\* the date is the sum of all values submitted for it and readingCount is
\* their number, whichever sensors they came from; a date without readings
\* has no record.
C13_TotalIsSumOfSubmitted ==
    \A d \in Dates :
        LET submitted == SubmittedValues(sensorReadingCreated, d)
        IN ~ Unpersisted(d) =>
              IF submitted = <<>>
              THEN ~ StateHas(usageDaily, d)
              ELSE /\ StateHas(usageDaily, d)
                   /\ usageDaily[d].totalConsumption = SumSeq(submitted)
                   /\ usageDaily[d].readingCount = Len(submitted)

\* C13 witness: three readings from two sensors have been processed for
\* one date, and the stored record counts and sums the three.
C13_Witness ==
    /\ AggActive = {}
    /\ \E d \in Dates :
          /\ Len(SubmittedValues(sensorReadingCreated, d)) = 3
          /\ Cardinality(SubmittingSensors(d)) = 2
          /\ usageDaily[d].readingCount = 3
          /\ usageDaily[d].totalConsumption = 160

\* the largest value of a sequence of non-negative values
RECURSIVE MaxSeq(_)
MaxSeq(values) == IF values = <<>> THEN 0 ELSE Max(values[1], MaxSeq(Tail(values)))

\* C14: every DailyUsage record in the store, under any interleaving of the
\* handlers, is consistent in itself: totalConsumption is the sum of its
\* readings, readingCount their number, peakUsage the largest of them (and
\* its date is the key it is stored under).
C14_DailyUsageConsistent ==
    \A d \in DOMAIN usageDaily :
        LET u == usageDaily[d]
        IN /\ u.date = d
           /\ u.totalConsumption = SumSeq(u.readings)
           /\ u.readingCount = Len(u.readings)
           /\ u.peakUsage = MaxSeq(u.readings)
           /\ u.readingCount >= 1

\* C14 witness: handlers have overlapped on a date, so that the record
\* holds fewer readings than were submitted, and its largest reading is
\* not its last.
C14_Witness ==
    \E d \in DOMAIN usageDaily :
        LET u == usageDaily[d]
        IN /\ ~ Unpersisted(d)
           /\ u.readingCount = 2
           /\ Len(SubmittedValues(sensorReadingCreated, d)) = 3
           /\ u.readings = <<60, 50>>
           /\ u.peakUsage = 60

\* C15: an optimization.required event is emitted only by a handler that
\* found the day's total strictly greater than dailyMax: a handler whose
\* total is at most the dailyMax in force at its check (a total equal to
\* dailyMax included) returns without emitting, every step that emits is
\* the step of a handler whose total exceeds the dailyMax it checked, and
\* no event on the bus has a total that is not above its threshold.
C15_EmitOnlyAboveDailyMax ==
    [][/\ \A p \in Readings :
             (agg[p].pc = "getPrefs" /\ agg'[p] # agg[p]
              /\ agg[p].dailyUsage.totalConsumption <= ThresholdDailyMax(userPreferences))
                 => /\ agg'[p].pc = "done"
                    /\ optimizationRequired' = optimizationRequired
       /\ optimizationRequired' # optimizationRequired =>
             \E p \in Readings :
                 /\ agg[p].pc = "emit" /\ agg'[p].pc = "setGuard"
                 /\ agg[p].dailyUsage.totalConsumption > agg[p].dailyMax
                 /\ usageDaily[agg[p].date].totalConsumption > agg[p].dailyMax
                 /\ optimizationRequired' =
                       Append(optimizationRequired, RequiredEvent(agg[p]))
       /\ \A k \in DOMAIN optimizationRequired' :
             optimizationRequired'[k].totalConsumption > optimizationRequired'[k].threshold]_vars

\* C15 witness: under the default dailyMax of 100 two readings of 50 have
\* been processed for a date: the stored total is exactly 100 and no event
\* was emitted for the date.
C15_Witness ==
    /\ AggActive = {}
    /\ userPreferences = <<>>
    /\ \E d \in DOMAIN usageDaily :
          /\ usageDaily[d].readings = <<50, 50>>
          /\ usageDaily[d].totalConsumption = DEFAULT_DAILY_MAX
          /\ EmittedFor(d) = 0

\* C16: every optimization.required event, at the step that emits it,
\* carries as threshold the dailyMax its handler checked against, as
\* totalConsumption the total stored for its date at that moment, and as
\* excessAmount the difference of the two, which is strictly positive.
C16_EventPayload ==
    [][\A p \in Readings :
          (agg[p].pc = "emit" /\ agg'[p].pc = "setGuard") =>
              LET e == optimizationRequired'[Len(optimizationRequired')]
              IN /\ Len(optimizationRequired') = Len(optimizationRequired) + 1
                 /\ e.date = agg[p].date
                 /\ e.threshold = agg[p].dailyMax
                 /\ e.totalConsumption = usageDaily[e.date].totalConsumption
                 /\ e.excessAmount = e.totalConsumption - e.threshold
                 /\ e.excessAmount > 0]_vars

\* the request the Decision Engine is asked about
DecideInput == optimizationRequired[1]

\* the AI path fails: no credential, the request raised, the reply is not
\* JSON, or a required field is missing
AiPathFails(reply) ==
    \/ ~ (genAI \/ apiKey)
    \/ reply.kind \in {"error", "unparsable"}
    \/ reply.action = Absent
    \/ reply.targetWindow = Absent
    \/ reply.confidence = <<>>

DecisionFields ==
    {"action", "targetWindow", "expectedSavingsPercent", "confidence",
     "reasoning", "source"}

\* the run of the Orchestrator holds the outcome of its analysis
Analyzed(h) == orch[h].pc \notin {"idle", "setRECEIVED", "pubRECEIVED",
                                  "setANALYZING", "pubANALYZING", "analyze"}

\* C17: analyzeWithGemini returns a decision for every outcome of the AI
\* path: whatever the reply, the result has all fields of a decision and is
\* tagged "ai" or "fallback"; when the AI path fails the result is exactly
\* fallbackAnalysis of the input, tagged "fallback"; a result tagged "ai"
\* comes only from a reply that was accepted, and is that reply's decision;
\* and the decision a run of the Orchestrator holds after its analysis is
\* the decision of one of these results.
C17_DecideAlwaysReturns ==
    /\ \A reply \in DecideReplies :
          LET d == analyzeWithGemini(DecideInput, genAI, apiKey, reply)
          IN /\ DecisionFields \subseteq DOMAIN d
             /\ d.source \in {"ai", "fallback"}
             /\ AiPathFails(reply) =>
                   d = fallbackAnalysis(DecideInput) /\ d.source = "fallback"
             /\ d.source = "ai" =>
                   ~ AiPathFails(reply) /\ d.action = reply.action
             /\ d.source = "fallback" => d = fallbackAnalysis(DecideInput)
    /\ \A h \in OrchRuns :
          Analyzed(h) =>
              /\ \E reply \in DecideReplies :
                    orch[h].decision = OptimizationDecision(
                        analyzeWithGemini(orch[h].input, genAI, apiKey, reply))
              /\ ~ apiKey => orch[h].decision =
                                OptimizationDecision(fallbackAnalysis(orch[h].input))

\* C17 witness: the credential is configured, yet the run of the
\* Orchestrator has completed with the fallback decision for its request
\* stored and dispatched: the AI path failed and nothing was raised.
C17_Witness ==
    /\ apiKey
    /\ orch[1].pc = "done"
    /\ LET id == orch[1].input.optimizationId
           fallback == OptimizationDecision(fallbackAnalysis(orch[1].input))
       IN /\ optimizations[id].decision = fallback
          /\ executionRequested[1].decision = fallback
          /\ fallback.action = "REDUCE_CONSUMPTION"

\* the tier of the fallback: action, window, confidence in hundredths
Tier(d) == <<d.action, d.targetWindow, d.confidence>>

\* C18: the fallback decision of a request with excess e over threshold t
\* (excessPercent = 100 e / t) is SHIFT_LOAD, 02:00-05:00, 0.85 when
\* excessPercent > 20; REDUCE_CONSUMPTION, 18:00-22:00, 0.78 when
\* 10 < excessPercent <= 20; OPTIMIZE_SCHEDULING, 12:00-16:00, 0.72 when
\* excessPercent <= 10.  Exactly 20 is REDUCE_CONSUMPTION, exactly 10 is
\* OPTIMIZE_SCHEDULING.
C18_FallbackTiers ==
    LET e == DecideInput.excessAmount
        t == DecideInput.threshold
        d == fallbackAnalysis(DecideInput)
    IN /\ d.source = "fallback"
       /\ 100 * e > 20 * t => Tier(d) = <<"SHIFT_LOAD", "02:00-05:00", 85>>
       /\ (100 * e > 10 * t /\ 100 * e <= 20 * t) =>
             Tier(d) = <<"REDUCE_CONSUMPTION", "18:00-22:00", 78>>
       /\ 100 * e <= 10 * t =>
             Tier(d) = <<"OPTIMIZE_SCHEDULING", "12:00-16:00", 72>>
       /\ 100 * e = 20 * t => d.action = "REDUCE_CONSUMPTION"
       /\ 100 * e = 10 * t => d.action = "OPTIMIZE_SCHEDULING"

\* C18 witness: without a credential the Orchestrator has stored the
\* decision for a request whose excess is exactly 20% of its threshold, and
\* the decision is REDUCE_CONSUMPTION for 18:00-22:00.
C18_Witness ==
    /\ ~ apiKey
    /\ 100 * DecideInput.excessAmount = 20 * DecideInput.threshold
    /\ \E id \in DOMAIN optimizations :
          /\ optimizations[id].status = "DECIDED"
          /\ Tier(optimizations[id].decision)
                = <<"REDUCE_CONSUMPTION", "18:00-22:00", 78>>

\* the cap of a tier
SavingsCap(action) ==
    CASE action = "SHIFT_LOAD" -> 25
      [] action = "REDUCE_CONSUMPTION" -> 15
      [] action = "OPTIMIZE_SCHEDULING" -> 10

\* C19: expectedSavingsPercent of the fallback decision, a quotient n/m, is
\* min(cap, excessPercent) with the cap of its tier (25, 15, 10): it is the
\* cap when excessPercent is above the cap and excessPercent otherwise;
\* hence it is at most 25, also for excessPercent >= 100, and never above
\* excessPercent.
C19_FallbackSavingsCapped ==
    LET e == DecideInput.excessAmount
        t == DecideInput.threshold
        d == fallbackAnalysis(DecideInput)
        n == d.expectedSavingsPercent[1]
        m == d.expectedSavingsPercent[2]
        cap == SavingsCap(d.action)
    IN /\ m > 0
       /\ IF 100 * e > cap * t THEN n = cap * m ELSE n * t = 100 * e * m
       /\ n <= 25 * m
       /\ n * t <= 100 * e * m

\* C19 witness: without a credential the Orchestrator has dispatched the
\* decision for a request whose excess is twice its threshold (200%), and
\* its expectedSavingsPercent is 25.
C19_Witness ==
    /\ ~ apiKey
    /\ DecideInput.excessAmount >= DecideInput.threshold
    /\ Len(executionRequested) = 1
    /\ executionRequested[1].decision.action = "SHIFT_LOAD"
    /\ executionRequested[1].decision.expectedSavingsPercent = <<25, 1>>
    /\ DecideInput.excessAmount = 2 * DecideInput.threshold

KnownActions == {"SHIFT_LOAD", "REDUCE_CONSUMPTION", "OPTIMIZE_SCHEDULING"}

\* C20: every decision in a stored OptimizationState and every decision
\* dispatched to the Executor has an action that is SHIFT_LOAD,
\* REDUCE_CONSUMPTION or OPTIMIZE_SCHEDULING: a reply of the AI with any
\* other action is not accepted.
C20_KnownAction ==
    /\ \A id \in DOMAIN optimizations :
          "decision" \in DOMAIN optimizations[id] =>
              optimizations[id].decision.action \in KnownActions
    /\ \A k \in DOMAIN executionRequested :
          executionRequested[k].decision.action \in KnownActions

\* a value brought into the range lo..hi
Clamped(lo, hi, v) == IF v < lo THEN lo ELSE IF v > hi THEN hi ELSE v

\* C21: for every reply of the AI that is accepted (the result is tagged
\* "ai") and carries both numbers, expectedSavingsPercent of the result is
\* the reply's value clamped to 0..30 and confidence is the reply's value
\* clamped to 0..1 (0..100 in hundredths); a value inside its range, 0
\* included, comes back unchanged.
C21_AcceptedReplyClamped ==
    \A reply \in DecideReplies :
        LET d == analyzeWithGemini(DecideInput, genAI, apiKey, reply)
        IN (d.source = "ai" /\ reply.expectedSavingsPercent # <<>>) =>
              /\ d.expectedSavingsPercent
                    = <<Clamped(0, 30, reply.expectedSavingsPercent[1]), 1>>
              /\ d.confidence = Clamped(0, 100, reply.confidence[1])
              /\ reply.expectedSavingsPercent[1] \in 0..30 =>
                    d.expectedSavingsPercent = <<reply.expectedSavingsPercent[1], 1>>
              /\ reply.confidence[1] \in 0..100 =>
                    d.confidence = reply.confidence[1]

\* C22: a call of analyzeWithGemini made while no credential is configured
\* calls no model API and returns the fallback decision for its input,
\* whatever calls were made before it, with or without a credential.
C22_NoCredentialNoCall ==
    [][\A h \in OrchRuns :
          (orch[h].pc = "analyze" /\ orch'[h].pc = "setDECIDED" /\ ~ apiKey) =>
              /\ ~ orch'[h].called
              /\ orch'[h].decision =
                    OptimizationDecision(fallbackAnalysis(orch[h].input))]_vars

\* the dailyMax of the stored preferences, 100 when none are stored
StoredDailyMax == IF userPreferences = <<>> THEN 100 ELSE userPreferences[1].dailyMax

\* C23: the check of a reading compares the total with the dailyMax stored
\* in user/preferences when the handler reads them, and with 100 when no
\* preferences are stored: the handler goes on to the guard exactly when
\* its total is above that value, and keeps that value as the threshold of
\* its event.  A threshold stored between two readings is the one the next
\* reading is checked against.
C23_CheckedAgainstStoredDailyMax ==
    [][\A p \in Readings :
          (agg[p].pc = "getPrefs" /\ agg'[p] # agg[p]) =>
              /\ agg'[p].pc \in {"getGuard", "done"}
              /\ agg'[p].pc = "getGuard"
                    <=> agg[p].dailyUsage.totalConsumption > StoredDailyMax
              /\ agg'[p].pc = "getGuard" => agg'[p].dailyMax = StoredDailyMax]_vars

\* C23 witness: a first reading of 60 was processed without an event (it
\* was checked against the default 100), dailyMax 50 was stored, and the
\* second reading of the date was checked against 50 and emitted the
\* date's one event with threshold 50.
C23_Witness ==
    /\ AggActive = {}
    /\ StoredDailyMax = 50
    /\ \E k \in DOMAIN optimizationRequired :
          LET e == optimizationRequired[k]
          IN /\ e.threshold = 50
             /\ EmittedFor(e.date) = 1
             /\ usageDaily[e.date].readingCount = 2
             /\ usageDaily[e.date].readings[1] = 60
             /\ e.totalConsumption = usageDaily[e.date].totalConsumption

\* the entry of a store group under a key, <<>> when the key was never set
Entry(group, key) == IF StateHas(group, key) THEN <<group[key]>> ELSE <<>>

\* C24: a step of the handler of a reading for date d leaves the DailyUsage
\* record and the guard flag of every other date as they are (absent ones
\* stay absent), in every interleaving; and a handler that found its total
\* above dailyMax returns without emitting only when the guard of its own
\* date is set: the guard of another date never suppresses its emission.
C24_OtherDatesUntouched ==
    [][\A p \in Readings, d \in Dates :
          (agg'[p] # agg[p]
           /\ d = (IF agg[p].pc = "idle" THEN agg'[p].date ELSE agg[p].date)) =>
              /\ \A other \in Dates \ {d} :
                    /\ Entry(usageDaily, other)' = Entry(usageDaily, other)
                    /\ Entry(optimizationTriggered, other)'
                          = Entry(optimizationTriggered, other)
              /\ (agg[p].pc = "getGuard" /\ agg'[p].pc = "done") =>
                    Entry(optimizationTriggered, d) = <<TRUE>>
              /\ (agg[p].pc = "getGuard"
                  /\ Entry(optimizationTriggered, d) # <<TRUE>>) =>
                    agg'[p].pc = "emit"]_vars

\* C24 witness: the guard of one date was set when a reading of another
\* date breached, and that reading emitted all the same: both dates have
\* their event and their guard, and their records hold their own readings.
C24_Witness ==
    /\ AggActive = {}
    /\ \E d1, d2 \in Dates :
          /\ d1 # d2
          /\ \A d \in {d1, d2} :
                /\ EmittedFor(d) = 1
                /\ Entry(optimizationTriggered, d) = <<TRUE>>
                /\ usageDaily[d].date = d
          /\ usageDaily[d1].readings # usageDaily[d2].readings

\* the identifiers of the optimization.required events on the bus
RequestedIds ==
    {optimizationRequired[k].optimizationId : k \in DOMAIN optimizationRequired}

\* C25: in every interleaving of Orchestrator and Executor runs, a step
\* that creates or changes the OptimizationState of an identifier is a
\* step of a run handling that identifier, and no step removes a state:
\* the runs of one identifier leave the states of all others as they are.
C25_OtherIdentifiersUntouched ==
    [][\A id \in RequestedIds :
          Entry(optimizations, id)' # Entry(optimizations, id) =>
              /\ Entry(optimizations, id)' # <<>>
              /\ \/ \E h \in OrchRuns :
                       orch'[h] # orch[h] /\ orch[h].input.optimizationId = id
                 \/ \E x \in ExecRuns :
                       exec'[x] # exec[x] /\ exec[x].input.optimizationId = id]_vars

\* C25 witness: while a run of the Orchestrator for one identifier is in
\* flight with its state at ANALYZING, the state of another identifier has
\* been completed by the Executor.
C25_Witness ==
    \E id1, id2 \in DOMAIN optimizations :
        /\ id1 # id2
        /\ optimizations[id1].status = "COMPLETED"
        /\ optimizations[id2].status = "ANALYZING"
        /\ \E h \in OrchRuns :
              orch[h].pc = "pubANALYZING" /\ orch[h].input.optimizationId = id2

\* a body the ingestion API must turn away: sensorId missing or not a
\* string, value missing, not a number, or negative
Malformed(body) ==
    \/ body.sensorId.type # "string"
    \/ body.value.type # "number"
    \/ body.value.number < 0

\* requests answered with a status
Answered(status) ==
    {r \in Requests : ingest[r].pc = "done" /\ ingest[r].response.status = status}

\* C26: a request with a malformed body is answered 400 at once, and
\* neither it nor any later step on its behalf changes the store or emits
\* an event; a request with a sensorId and value 0 is accepted like any
\* other value, answered 201; every event on sensor.reading.created was
\* emitted by the one emitting step of an accepted request, so that the
\* events number the requests answered 201.
C26_IngestValidation ==
    [][/\ \A r \in Requests :
             /\ (ingest[r].pc = "idle" /\ ingest'[r].pc # "idle"
                 /\ Malformed(ingest'[r].body)) =>
                   /\ ingest'[r].pc = "done"
                   /\ ingest'[r].response.status = 400
                   /\ UNCHANGED <<sensors, usageRaw, sensorReadingCreated>>
             /\ (ingest[r].pc = "idle" /\ ingest'[r].pc # "idle"
                 /\ ingest'[r].body.sensorId = JsString("sensor-1")
                 /\ ingest'[r].body.value = JsNumber(0)) =>
                   ingest'[r].pc = "setSensor"
             /\ (ingest[r].pc # "done" /\ ingest'[r].pc = "done"
                 /\ ~ Malformed(ingest'[r].body)
                 /\ ingest'[r].body.sensorId.text # "") =>
                   /\ ingest'[r].response.status = 201
                   /\ Len(sensorReadingCreated') = Len(sensorReadingCreated) + 1
                   /\ sensorReadingCreated'[Len(sensorReadingCreated')].value
                         = ingest[r].body.value.number
       /\ Len(sensorReadingCreated') = Cardinality(Answered(201)')
       /\ \A r \in Answered(400) :
             ingest'[r] = ingest[r]]_vars

\* C26 witness: a reading of 0 was accepted with 201, stored and emitted
\* as the one event on the bus, and a negative reading was answered 400.
C26_Witness ==
    \E r, q \in Requests :
        /\ ingest[r].pc = "done"
        /\ ingest[r].body.value = JsNumber(0)
        /\ ingest[r].response.status = 201
        /\ ingest[q].pc = "done"
        /\ ingest[q].body.value = JsNumber(-10)
        /\ ingest[q].body.sensorId = JsString("sensor-1")
        /\ ingest[q].response.status = 400
        /\ Len(sensorReadingCreated) = 1
        /\ sensorReadingCreated[1].value = 0
        /\ sensors["sensor-1"].latestReading.value = 0

\* every handler started so far has returned
AllReturned == \A p \in Readings : agg[p].pc \in {"idle", "done"}

\* C27: with the handlers of several readings of one date running at the
\* same time, their read (STEP 1) and write (STEP 3) of the DailyUsage
\* record interleaved, once all of them have returned the stored
\* readingCount of the date is the number of readings submitted for it and
\* totalConsumption is their sum.
C27_NoReadingLost ==
    AllReturned =>
        \A d \in Dates :
            LET submitted == SubmittedValues(sensorReadingCreated, d)
            IN Len(submitted) >= 2 =>
                  /\ usageDaily[d].readingCount = Len(submitted)
                  /\ usageDaily[d].totalConsumption = SumSeq(submitted)

\* the k-th optimization.required event has been delivered to a run of the
\* Orchestrator
Received(k) ==
    \E h \in OrchRuns : orch[h].pc # "idle" /\ orch[h].input = optimizationRequired[k]

\* C28: under fair delivery, with the store, the queue and the Decision
\* Engine responding, every optimization whose optimization.required event
\* has been received by the Orchestrator eventually has status COMPLETED or
\* FAILED in the store, also when the event is delivered again after that.
C28_ReceivedReachesTerminal ==
    \A k \in 1..NumOptimizations :
        Received(k) ~> (StoredStatus(optimizationRequired[k].optimizationId) \in Terminal)

\* C28 witness: both events have been received, every handler run has ended,
\* and one optimization is stored COMPLETED, the other FAILED.
C28_Witness ==
    /\ \A k \in 1..NumOptimizations : Received(k)
    /\ \A h \in OrchRuns : orch[h].pc = "done"
    /\ \A x \in ExecRuns : exec[x].pc \in {"done", "threw"}
    /\ \E k, j \in 1..NumOptimizations :
          /\ StoredStatus(optimizationRequired[k].optimizationId) = "COMPLETED"
          /\ StoredStatus(optimizationRequired[j].optimizationId) = "FAILED"

\* C29: whether or not the model API ever replies, a run of the
\* Orchestrator that has persisted ANALYZING and called analyzeWithGemini
\* eventually gets a decision back and leaves the analysis: the optimization
\* does not stay in ANALYZING.
C29_DecideReturns ==
    \A h \in OrchRuns : (orch[h].pc = "analyze") ~> (orch[h].pc # "analyze")

\* the decisions analyzeWithGemini may return to a run for its event
EngineDecisions(h) ==
    {OptimizationDecision(
        analyzeWithGemini([totalConsumption |-> orch[h].input.totalConsumption,
                           threshold |-> orch[h].input.threshold,
                           excessAmount |-> orch[h].input.excessAmount,
                           date |-> orch[h].input.date],
                          genAI, apiKey, reply)) : reply \in LifeReplies}

\* C30: a run of the Orchestrator gets the answer of the Decision Engine
\* only when its last write to the store is the state with status ANALYZING,
\* and the decision it keeps is one the engine returns for its event; a
\* write of status DECIDED is made only by a run the engine has answered,
\* and the state written carries the decision the engine returned to it.
C30_AnalyzeBetweenWrites ==
    [][\A h \in OrchRuns :
          /\ (orch[h].pc = "analyze" /\ orch'[h].pc # "analyze") =>
                /\ Len(orch[h].persisted) = 2
                /\ orch[h].persisted[2].status = "ANALYZING"
                /\ "decision" \notin DOMAIN orch[h].persisted[2]
                /\ orch[h].decision = NoDecision
                /\ orch'[h].decision \in EngineDecisions(h)
                /\ UNCHANGED optimizations
          /\ (/\ Len(orch'[h].persisted) > Len(orch[h].persisted)
              /\ orch'[h].persisted[Len(orch'[h].persisted)].status = "DECIDED") =>
                /\ orch[h].pc = "setDECIDED"
                /\ orch[h].decision # NoDecision
                /\ orch'[h].decision = orch[h].decision
                /\ optimizations'[orch[h].input.optimizationId].status = "DECIDED"
                /\ optimizations'[orch[h].input.optimizationId].decision = orch[h].decision
          /\ orch[h].pc \in {"idle", "setRECEIVED", "pubRECEIVED",
                             "setANALYZING", "pubANALYZING", "analyze"} =>
                \A i \in DOMAIN orch'[h].persisted :
                    orch'[h].persisted[i].status # "DECIDED"]_vars

\* C30 witness: a run whose analysis called the model API has written
\* RECEIVED, ANALYZING and then DECIDED with the decision it got back.
C30_Witness ==
    \E h \in OrchRuns :
        /\ orch[h].called
        /\ Len(orch[h].persisted) >= 3
        /\ orch[h].persisted[2].status = "ANALYZING"
        /\ orch[h].persisted[3].status = "DECIDED"
        /\ orch[h].persisted[3].decision = orch[h].decision
        /\ orch[h].decision.action = "REDUCE_CONSUMPTION"
        /\ orch[h].decision.expectedSavingsPercent = <<20, 1>>
        /\ orch[h].decision.confidence = 90

\* the actuation of a run succeeded: executeOptimization resolved with its
\* result
ActuationSucceeded(x) == exec[x].executionResult.success

\* C31: a run of the Executor writes status FAILED, with executionResult
\* success false, only when its executeOptimization raised; a run whose
\* actuation succeeded never writes FAILED, also when a store operation of
\* its terminal read or write raises.
C31_FailedOnlyAfterActuationRaised ==
    [][\A x \in ExecRuns :
          (exec[x].pc = "setFailed" /\ exec'[x].pc = "threw") =>
              /\ optimizations'[exec[x].input.optimizationId].status = "FAILED"
              /\ ~ optimizations'[exec[x].input.optimizationId].executionResult.success
              /\ ~ ActuationSucceeded(x)
              /\ exec[x].error \in ActuationErrors]_vars

\* C32: a store operation that rejects ends the run of the Aggregator with
\* the error: the run takes no further step, the operation is not tried
\* again and the store and the topic are as they were; a run that has not
\* got past the write of the DailyUsage record, whether it goes on or
\* raises there, emits no event and leaves the guard flags unchanged.
C32_StoreErrorPropagates ==
    [][\A p \in Readings :
          agg'[p] # agg[p] =>
              /\ agg[p].pc # "threw"
              /\ agg[p].pc = "idle" => agg'[p].pc \in {"setUsage", "threw"}
              /\ agg[p].pc = "setUsage" => agg'[p].pc \in {"getPrefs", "threw"}
              /\ agg[p].pc \in {"idle", "setUsage"} =>
                    UNCHANGED <<optimizationRequired, optimizationTriggered>>
              /\ agg'[p].pc = "threw" =>
                    UNCHANGED <<usageDaily, optimizationTriggered, optimizationRequired,
                                userPreferences>>]_vars

\* C32 witness: under dailyMax 50 a reading of 60 was delivered and the
\* read or the write of its DailyUsage record rejected: the run has raised,
\* the date has no record, no event and no guard flag.
C32_Witness ==
    /\ agg[1].pc = "threw"
    /\ agg[1].failedAt \in {"getUsage", "setUsage"}
    /\ Len(sensorReadingCreated) = 1
    /\ sensorReadingCreated[1].value = 60
    /\ userPreferences = <<Preferences(50)>>
    /\ usageDaily = <<>>
    /\ optimizationRequired = <<>>
    /\ optimizationTriggered = <<>>

\* the total stored for a date, 0 when the date has no record
StoredTotal(date) ==
    IF StateHas(usageDaily, date) THEN usageDaily[date].totalConsumption ELSE 0

\* the guard flag of a date is set
GuardSet(date) == StateHas(optimizationTriggered, date) /\ optimizationTriggered[date]

\* C33: a run of the Aggregator whose total is not above dailyMax, or whose
\* date has its guard flag set, returns without emitting.  Up to that return
\* the run changes the store once, writing the DailyUsage record of its date
\* with the total it loaded plus its value, and changes neither the topic
\* nor the guard flags nor the preferences.
C33_QuietReadingWritesUsageOnly ==
    [][\A p \in Readings :
          (agg'[p] # agg[p] /\ agg[p].pc \in {"idle", "setUsage", "getPrefs", "getGuard"}) =>
              /\ UNCHANGED <<optimizationRequired, optimizationTriggered, userPreferences>>
              /\ agg[p].pc = "idle" =>
                    /\ UNCHANGED usageDaily
                    /\ agg'[p].dailyUsage.totalConsumption =
                           StoredTotal(agg'[p].date) + agg'[p].value
                    /\ agg'[p].value > 0
              /\ agg[p].pc = "setUsage" =>
                    /\ usageDaily' = [d \in DOMAIN usageDaily \cup {agg[p].date} |->
                                         IF d = agg[p].date THEN agg[p].dailyUsage
                                         ELSE usageDaily[d]]
                    /\ agg'[p].pc = "getPrefs"
              /\ agg[p].pc = "getPrefs" =>
                    /\ UNCHANGED usageDaily
                    /\ IF agg[p].dailyUsage.totalConsumption
                              > ThresholdDailyMax(userPreferences)
                       THEN agg'[p].pc = "getGuard"
                       ELSE agg'[p].pc = "done"
              /\ agg[p].pc = "getGuard" =>
                    /\ UNCHANGED usageDaily
                    /\ IF GuardSet(agg[p].date)
                       THEN agg'[p].pc = "done"
                       ELSE agg'[p].pc = "emit"]_vars

\* C33 witness: two readings of 60 breached the default
\* dailyMax and raised the event and the guard flag of their date; a third
\* reading of the date, of 50, was then handled: the total has grown to 170
\* and there is still the one event, carrying the total 120.
C33_Witness ==
    /\ AggActive = {}
    /\ Len(optimizationRequired) = 1
    /\ optimizationRequired[1].totalConsumption = 120
    /\ LET d == optimizationRequired[1].date
       IN /\ GuardSet(d)
          /\ usageDaily[d].readingCount = 3
          /\ usageDaily[d].totalConsumption = 170

\* C34: any two optimization.required events on the topic carry different
\* optimizationIds, also when both were emitted for one date at one value of
\* the clock.
C34_IdentifiersDistinct ==
    \A i, j \in DOMAIN optimizationRequired :
        i # j => optimizationRequired[i].optimizationId # optimizationRequired[j].optimizationId

\* the fields of an OptimizationState the Orchestrator writes and the
\* Executor is to leave alone
OrchestratorFields == {"id", "triggeredAt", "decision"}

\* C35: every write of a run of the Executor stores a state with status
\* COMPLETED or FAILED whose id, triggeredAt and decision are those of the
\* state stored until then: a field the stored state has is kept with its
\* value, a field it lacks is not added.
C35_ExecutorKeepsOrchestratorFields ==
    [][\A x \in ExecRuns :
          (exec[x].pc \in {"setCompleted", "setFailed"} /\ exec'[x].pc \in {"done", "threw"}) =>
              LET id == exec[x].input.optimizationId
              IN /\ StateHas(optimizations, id)
                 /\ optimizations'[id].status \in Terminal
                 /\ \A f \in OrchestratorFields :
                       /\ (f \in DOMAIN optimizations'[id]) = (f \in DOMAIN optimizations[id])
                       /\ f \in DOMAIN optimizations[id] =>
                             optimizations'[id][f] = optimizations[id][f]]_vars

\* C36: with reading events delivered one or more times, each delivery
\* handled after the one before has returned, the record of a date counts
\* every reading event on the topic once: readingCount is the number of the
\* events of the date and totalConsumption the sum of their values.
C36_RedeliveryCountsOnce ==
    \A d \in Dates :
        (StateHas(usageDaily, d) /\ ~ Unpersisted(d)) =>
            /\ usageDaily[d].readingCount = Len(SubmittedValues(sensorReadingCreated, d))
            /\ usageDaily[d].totalConsumption = SumSeq(SubmittedValues(sensorReadingCreated, d))

\* the runs of the Orchestrator for an identifier
OrchRunsOf(id) ==
    {h \in OrchRuns : orch[h].pc # "idle" /\ orch[h].input.optimizationId = id}

\* C37: with every event delivered exactly once, a run of the Executor is
\* under way only for an identifier whose Orchestrator run has persisted
\* RECEIVED, ANALYZING, DECIDED and EXECUTING and has ended; the status its
\* terminal write replaces is EXECUTING; and no write of the Orchestrator
\* lands on an identifier whose stored status is terminal or whose Executor
\* run has been started.
C37_HandOverAtExecuting ==
    [][/\ \A x \in ExecRuns :
             LET id == exec[x].input.optimizationId
             IN /\ exec[x].pc \notin {"idle"} =>
                      /\ OrchRunsOf(id) # {}
                      /\ \A h \in OrchRunsOf(id) :
                            /\ orch[h].pc = "done"
                            /\ PersistedStatuses(h) = LifecycleOrder
                            /\ orch'[h] = orch[h]
                /\ (exec[x].pc \in {"setCompleted", "setFailed"}
                    /\ exec'[x].pc \in {"done", "threw"}) =>
                      /\ optimizations[id].status = "EXECUTING"
                      /\ optimizations'[id].status \in Terminal
       /\ \A h \in OrchRuns :
             Len(orch'[h].persisted) > Len(orch[h].persisted) =>
                 LET id == orch[h].input.optimizationId
                 IN /\ StoredStatus(id) \notin Terminal
                    /\ \A x \in ExecRuns :
                          exec[x].pc # "idle" => exec[x].input.optimizationId # id]_vars

\* C37 witness: both optimizations were handed over: one has been written
\* COMPLETED by its Executor run, the other FAILED after a store operation of
\* its Executor run raised, and each keeps the decision its Orchestrator run
\* persisted with EXECUTING.
C37_Witness ==
    \E x, y \in ExecRuns :
        /\ exec[x].pc = "done"
        /\ exec[y].pc = "threw"
        /\ optimizations[exec[x].input.optimizationId].status = "COMPLETED"
        /\ optimizations[exec[y].input.optimizationId].status = "FAILED"
        /\ \A h \in OrchRuns :
              /\ orch[h].pc = "done"
              /\ optimizations[orch[h].input.optimizationId].decision
                    = orch[h].persisted[4].decision

\* the entry of the energyStatus stream of an optimization.required event
StreamKey(event) == <<event.date, event.optimizationId>>

\* C38: under fair delivery, once the store holds a terminal status for an
\* optimization, the entry of the optimization on the energyStatus stream
\* eventually shows a terminal status with progress 100.
C38_StreamShowsTerminal ==
    \A k \in 1..NumOptimizations :
        LET event == optimizationRequired[k]
        IN (StoredStatus(event.optimizationId) \in Terminal)
              ~> (/\ StateHas(energyStatus, StreamKey(event))
                  /\ energyStatus[StreamKey(event)].status \in Terminal
                  /\ energyStatus[StreamKey(event)].progress = 100)

AfterPublish(status) ==
    CASE status = "RECEIVED" -> "setANALYZING"
      [] status = "ANALYZING" -> "analyze"
      [] status = "DECIDED" -> "setEXECUTING"
      [] status = "EXECUTING" -> "emit"

\* C40: a run of the Orchestrator goes on after publishStatus in the same
\* way whether the stream write succeeded or raised, a write that raised
\* leaving the stream as it was, and a run that has ended has persisted the
\* four statuses and dispatched; and the status of every entry of the stream
\* is, in the order of the lifecycle, not later than the status stored for
\* its optimization.
C40_StreamFailureSwallowed ==
    [][/\ \A h \in OrchRuns, status \in Statuses :
             (orch[h].pc = "pub" \o status /\ orch'[h] # orch[h]) =>
                 /\ orch'[h].pc = AfterPublish(status)
                 /\ orch'[h].persisted = orch[h].persisted
                 /\ streamFaults' # streamFaults => energyStatus' = energyStatus
       /\ \A h \in OrchRuns :
             orch'[h].pc = "done" =>
                 /\ PersistedStatuses(h)' = LifecycleOrder
                 /\ \E k \in DOMAIN executionRequested' :
                       executionRequested'[k].optimizationId = orch'[h].input.optimizationId
       /\ \A key \in DOMAIN energyStatus' :
             /\ StateHas(optimizations', key[2])
             /\ STATUS_PROGRESS(energyStatus'[key].status)
                   <= STATUS_PROGRESS(optimizations'[key[2]].status)]_vars

====
